---- MODULE Spec2Model ----
(***************************************************************************)
(* Model of @sabl/txn (src/src/index.ts): the generic transaction runner   *)
(* TxnRunnerImpl and the in-memory change set ChangeSetImpl.               *)
(*                                                                         *)
(* One run() or in() call of one runner is modelled.  Each step of the     *)
(* model is one synchronous segment of the async code, i.e. the code       *)
(* between two awaits.  The callback handed to the call and the deferred   *)
(* actions are the environment: while they are in progress they may call   *)
(* defer, deferFail, commit and rollback on the change set they were       *)
(* handed.  A transaction change set runs its transactional actions in a   *)
(* run() of its own runner, the inner run.                                 *)
(* The factories txn() and txnChangeSet(), the options argument and the    *)
(* reference stack backend of the test fixtures are modelled as well.      *)
(***************************************************************************)
EXTENDS Integers, Sequences, FiniteSets, TLC

\* ------------------------------------------------------------------ bounds

\* most actions registered with defer, and most registered with deferFail
MaxFns == 2
\* most commit()/rollback() calls made by the callback (not by the runner)
MaxUserCalls == 2
\* most defer/deferFail calls that are rejected by checkStatus
MaxRejected == 1
\* most values the callback pushes through a stack transaction
MaxPush == 2
\* the most actions registered, over its three lists, on a transaction change
\* set in one run
MaxTxnCsActions == 4
\* the most calls of run() or in() made, one after the other, on one runner
MaxRuns == 2

VARIABLES
  runner,        \* which factory built the runner: "txn", "changeSet" or
                 \* "txnChangeSet"
  entry,         \* the method that was called: "run" or "in"
  pc,            \* position of run() between its awaits
  ctx,           \* the context run() was called with
  fnGiven,       \* whether a callback was passed to run()
  beginCalls,    \* sources beginTxn was called on, in call order
  cbResult,      \* "none" while the callback has not ended, else "ok" or "raise"
  cbThrown,      \* the value the callback threw, if any
  caught,        \* the value bound to e in run()'s catch clause, if any
  outcome,       \* "pending", "resolved" or "rejected": the promise run() returned
  error,         \* the value run() rejected with, if any
  calls,         \* commit()/rollback() invocations on the opened transaction
  commitFns,     \* ChangeSetImpl.commitFns  (ids of the registered actions)
  rollbackFns,   \* ChangeSetImpl.rollbackFns
  done,          \* ChangeSetImpl.done
  ignoreStatus,  \* ChangeSetImpl.ignoreStatus
  execLog,       \* start/end events of the deferred actions, in order
  nextId,        \* next fresh action id
  rejected,      \* number of defer/deferFail calls that threw
  cbArgs,        \* the (context, transaction) the callback was invoked with
  parentCalls,   \* commit()/rollback() calls on the transaction the context
                 \* already carried
  commitTxn,     \* TxnChangeSetImpl.#commitTxn (ids of the registered actions)
  lateTxn,       \* ids registered by deferTxn when the set was already done
  inner,         \* the run() that TxnChangeSetImpl.commit() makes
  factory,       \* the call of txn() or txnChangeSet() that built the runner
  optsArg,       \* the options argument of the call: "absent" or the options
  beginOpts,     \* the options beginTxn was called with, in call order
  mem,           \* the reference stack backend: the stack and its transaction
  thisRun        \* which call on the runner this is, and the first action id
                 \* not yet used when it was made

vars == <<runner, pc, ctx, fnGiven, beginCalls, cbResult, cbThrown, caught, outcome,
          error, calls, commitFns, rollbackFns, done, ignoreStatus, execLog,
          nextId, rejected, entry, thisRun, cbArgs, parentCalls, commitTxn, lateTxn,
          inner, factory, optsArg, beginOpts, mem>>

runVars == <<runner, pc, ctx, fnGiven, beginCalls, cbResult, cbThrown, caught, outcome, error>>
csVars  == <<commitFns, rollbackFns, done, ignoreStatus, execLog, nextId, rejected>>
envVars == <<factory, optsArg, beginOpts, mem>>
extVars == <<entry, thisRun, cbArgs, parentCalls, commitTxn, lateTxn, inner, envVars>>

\* ------------------------------------------------------------ thrown values

\* A JavaScript value that can be thrown.  isError: instanceof Error;
\* isNull: null or undefined; msg: its message (Error) or its text (string),
\* as a sequence of pieces; cause: <<>> or <<the Error it wraps>>.
ErrorObj(m) == [isError |-> TRUE, isNull |-> FALSE, msg |-> m, cause |-> <<>>]
StringVal(m) == [isError |-> FALSE, isNull |-> FALSE, msg |-> m, cause |-> <<>>]
NullVal == [isError |-> FALSE, isNull |-> TRUE, msg |-> <<>>, cause |-> <<>>]

\* String(e)
StringOf_message(e) == IF e.isNull THEN <<"null">> ELSE e.msg

StringOf(e) == IF e.isError THEN <<"Error: ">> \o e.msg
               ELSE IF e.isNull THEN <<"null">> ELSE e.msg

NoSourceError == ErrorObj(<<"No transactable source present on context">>)
MissingCallbackError == ErrorObj(<<"Missing callback function">>)
NestedTxnError ==
  ErrorObj(<<"There is already an open transaction, and it does not support nested transactions">>)
AlreadyCompletedError == ErrorObj(<<"Change set is already committed or rolled back">>)

\* the Error run() throws from its catch clause
TransactionFailed_NoCause(e) ==
  [isError |-> TRUE, isNull |-> FALSE,
   msg |-> <<"Transaction failed">> \o (IF ~e.isNull THEN <<": ">> \o StringOf(e) ELSE <<>>),
   cause |-> <<>>]

TransactionFailed(e) ==
  [isError |-> TRUE, isNull |-> FALSE,
   msg |-> <<"Transaction failed">> \o (IF ~e.isNull THEN <<": ">> \o StringOf(e) ELSE <<>>),
   cause |-> IF e.isError THEN <<e>> ELSE <<>>]

\* what the callback may throw
CallbackThrows == {ErrorObj(<<"callback failed">>), StringVal(<<"Not an error object">>), NullVal}
\* what commit()/rollback() of a backend transaction may throw
CommitThrows == {ErrorObj(<<"commit failed">>), StringVal(<<"commit failed">>)}
RollbackThrows == {ErrorObj(<<"rollback failed">>)}
BeginThrows == {ErrorObj(<<"begin failed">>)}
\* what deferred action number id throws when it fails
ActionError(id) == ErrorObj(<<"action ", ToString(id), " failed">>)

\* ------------------------------------------------------------------ context

\* what the accessor's getTxn finds on a context
ExistingKinds == {"none", "plain", "nestable"}

\* Contexts run() can be called with.  A runner "stack" is a txn() runner
\* over the reference stack backend, called on a context without a stack
\* transaction.  A context of the changeSet() runner
\* carries no nestable transaction: ChangeSetImpl has no beginTxn.  For a
\* txnChangeSet() runner, existing is the transaction change set on the
\* context and backendTxn the backend transaction on it, which the inner
\* runner looks up.
Contexts(r) ==
  IF r = "changeSet"
  THEN [hasSource : BOOLEAN, existing : {"none", "plain"}]
  ELSE IF r = "txnChangeSet"
  THEN [hasSource : BOOLEAN, existing : {"none", "plain"}, backendTxn : ExistingKinds]
  ELSE IF r = "stack"
  THEN [hasSource : BOOLEAN, existing : {"none"}]
  ELSE [hasSource : BOOLEAN, existing : ExistingKinds]

\* accessor.getTransactable(ctx) != null.  The change set runner's
\* getCsBuilder ignores the context and always returns csBuilder, and so
\* does getTransactable of makeTxnCsAccessor.
getTransactable_always(r, c) == TRUE

getTransactable(r, c) == IF r \in {"changeSet", "txnChangeSet"} THEN TRUE ELSE c.hasSource

\* isTransactable(existingTxn)
isTransactable_always(existing) == TRUE

isTransactable(existing) == existing = "nestable"

\* the source run() begins the transaction from
TxnSource_fromContext(c) == "source"

TxnSource(c) == IF c.existing # "none" /\ isTransactable(c.existing)
                THEN "existing" ELSE "source"

\* ------------------------------------------------- invocations on the txn

\* One call of commit() or rollback() on the transaction run() opened.
\* by: "runner" (made by run()) or "user" (made by the callback or by a
\* deferred action); st: the state of the promise the call returned;
\* err: what it rejected with; idx: for a change set, the position in the
\* list of deferred actions of the action it is awaiting (0: none).
Invocation(op, by, st, err, idx) ==
  [op |-> op, by |-> by, st |-> st, err |-> err, idx |-> idx]

CallsOf(op, by) == {i \in 1..Len(calls) : calls[i].op = op /\ calls[i].by = by}

Settled(i) == calls[i].st # "running"

\* an event of a deferred action: list "commit" or "fail", the action's id,
\* ev "start", "ok" (it finished) or "raise" (it threw), and the invocation
\* (index in calls) that ran it
Event(list, id, ev, c) == [list |-> list, id |-> id, ev |-> ev, call |-> c]

\* ---------------------------------------------------------- ChangeSetImpl

\* checkStatus(): TRUE when it throws
\* an invocation of commit() is between its `this.done = true` and its end
CommitRunning == \E c \in 1..Len(calls) : calls[c].op = "commit" /\ calls[c].st = "running"

checkStatus_never == FALSE

checkStatus_afterCommit == done /\ ~CommitRunning

checkStatus == done

\* k-th function visited by `for (const fn of fns)`
IterAt_reversed(fns, k) == fns[Len(fns) + 1 - k]

IterAt(fns, k) == fns[k]

\* whether the loop `for (...) { await fn(ctx); }` goes on to another
\* function after the idx-th of len has ended with r: a throw leaves the loop
LoopContinues_pastThrow(r, idx, len) == idx < len

LoopContinues(r, idx, len) == r = "ok" /\ idx < len

\* commit(): `finally { this.ignoreStatus = !ok; }`
IgnoreAfterCommit_always(ok) == TRUE

IgnoreAfterCommit(ok) == ~ok

\* rollback(): ignoreStatus after the status test.  Either it was set and
\* is cleared, or it was not set and checkStatus passed.
IgnoreAfterRollback_kept == ignoreStatus

IgnoreAfterRollback == FALSE

\* rollback(): `if (this.ignoreStatus) {...} else { this.checkStatus(); }`
\* TRUE when rollback() throws AlreadyCompletedError
RollbackRefused_never == FALSE

RollbackRefused_unlessCommitting == ~ignoreStatus /\ checkStatus /\ ~CommitRunning

RollbackRefused == ~ignoreStatus /\ checkStatus

\* defer(fn)
Defer ==
  /\ IF checkStatus
     THEN /\ rejected < MaxRejected
          /\ rejected' = rejected + 1
          /\ UNCHANGED <<commitFns, nextId>>
     ELSE /\ Len(commitFns) < MaxFns
          /\ commitFns' = Append(commitFns, nextId)
          /\ nextId' = nextId + 1
          /\ UNCHANGED rejected
  /\ UNCHANGED <<rollbackFns, done, ignoreStatus, execLog, calls>>

\* deferFail(fn)
DeferFail ==
  /\ IF checkStatus
     THEN /\ rejected < MaxRejected
          /\ rejected' = rejected + 1
          /\ UNCHANGED <<rollbackFns, nextId>>
     ELSE /\ Len(rollbackFns) < MaxFns
          /\ rollbackFns' = Append(rollbackFns, nextId)
          /\ nextId' = nextId + 1
          /\ UNCHANGED rejected
  /\ UNCHANGED <<commitFns, done, ignoreStatus, execLog, calls>>

\* commit(), up to its first await: the status check, done = true, and the
\* call of the first commit action.  With no commit action the loop is
\* empty and the call runs to its end.
CsCommit_consumes(by) ==
  LET c == Len(calls) + 1 IN
  /\ IF checkStatus
     THEN /\ calls' = Append(calls,
                 Invocation("commit", by, "rejected", <<AlreadyCompletedError>>, 0))
          /\ ignoreStatus' = FALSE
          /\ UNCHANGED <<done, execLog>>
     ELSE /\ done' = TRUE
          /\ IF commitFns = <<>>
             THEN /\ calls' = Append(calls, Invocation("commit", by, "resolved", <<>>, 0))
                  /\ ignoreStatus' = IgnoreAfterCommit(TRUE)
                  /\ UNCHANGED execLog
             ELSE /\ calls' = Append(calls, Invocation("commit", by, "running", <<>>, 1))
                  /\ execLog' = Append(execLog,
                         Event("commit", IterAt(commitFns, 1), "start", c))
                  /\ UNCHANGED ignoreStatus
  /\ UNCHANGED <<commitFns, rollbackFns, nextId, rejected>>

CsCommit(by) ==
  LET c == Len(calls) + 1 IN
  /\ IF checkStatus
     THEN /\ calls' = Append(calls,
                 Invocation("commit", by, "rejected", <<AlreadyCompletedError>>, 0))
          /\ UNCHANGED <<done, ignoreStatus, execLog>>
     ELSE /\ done' = TRUE
          /\ IF commitFns = <<>>
             THEN /\ calls' = Append(calls, Invocation("commit", by, "resolved", <<>>, 0))
                  /\ ignoreStatus' = IgnoreAfterCommit(TRUE)
                  /\ UNCHANGED execLog
             ELSE /\ calls' = Append(calls, Invocation("commit", by, "running", <<>>, 1))
                  /\ execLog' = Append(execLog,
                         Event("commit", IterAt(commitFns, 1), "start", c))
                  /\ UNCHANGED ignoreStatus
  /\ UNCHANGED <<commitFns, rollbackFns, nextId, rejected>>

\* rollback(), up to its first await
CsRollback(by) ==
  LET c == Len(calls) + 1 IN
  /\ IF RollbackRefused
     THEN /\ calls' = Append(calls,
                 Invocation("rollback", by, "rejected", <<AlreadyCompletedError>>, 0))
          /\ UNCHANGED <<done, ignoreStatus, execLog>>
     ELSE /\ ignoreStatus' = IgnoreAfterRollback
          /\ done' = TRUE
          /\ IF rollbackFns = <<>>
             THEN /\ calls' = Append(calls, Invocation("rollback", by, "resolved", <<>>, 0))
                  /\ UNCHANGED execLog
             ELSE /\ calls' = Append(calls, Invocation("rollback", by, "running", <<>>, 1))
                  /\ execLog' = Append(execLog,
                         Event("fail", IterAt(rollbackFns, 1), "start", c))
  /\ UNCHANGED <<commitFns, rollbackFns, nextId, rejected>>

\* The deferred action that invocation c of commit() or rollback() awaits
\* ends with r ("ok" or "raise"), and the invocation resumes: it calls the
\* next action, or leaves the loop and settles.
CsActionEnd(c, r) ==
  LET inv  == calls[c]
      list == IF inv.op = "commit" THEN "commit" ELSE "fail"
      fns  == IF inv.op = "commit" THEN commitFns ELSE rollbackFns
      id   == IterAt(fns, inv.idx)
      ended == Append(execLog, Event(list, id, r, c))
  IN
  /\ runner \in {"changeSet", "txnChangeSet"}
  /\ inv.st = "running"
  /\ inv.idx > 0
  /\ IF LoopContinues(r, inv.idx, Len(fns))
     THEN /\ calls' = [calls EXCEPT ![c].idx = inv.idx + 1]
          /\ execLog' = Append(ended, Event(list, IterAt(fns, inv.idx + 1), "start", c))
          /\ UNCHANGED ignoreStatus
     ELSE /\ calls' = [calls EXCEPT
                 ![c].st = IF r = "ok" THEN "resolved" ELSE "rejected",
                 ![c].err = IF r = "ok" THEN <<>> ELSE <<ActionError(id)>>,
                 ![c].idx = 0]
          /\ execLog' = ended
          /\ ignoreStatus' = IF inv.op = "commit"
                             THEN IgnoreAfterCommit(r = "ok")
                             ELSE ignoreStatus
  /\ UNCHANGED <<commitFns, rollbackFns, done, nextId, rejected>>
  /\ UNCHANGED runVars
  /\ UNCHANGED extVars

\* ------------------------------------------------------ backend transaction

\* commit() or rollback() of a transaction of an integrator's own type:
\* the call is made and its promise is pending
BackendCall(op, by) ==
  /\ calls' = Append(calls, Invocation(op, by, "running", <<>>, 0))
  /\ UNCHANGED csVars

\* the backend settles call c: it resolves, or rejects with a value
BackendSettle(c) ==
  /\ runner = "txn"
  /\ calls[c].st = "running"
  /\ \/ calls' = [calls EXCEPT ![c].st = "resolved"]
     \/ \E e \in (IF calls[c].op = "commit" THEN CommitThrows ELSE RollbackThrows) :
          calls' = [calls EXCEPT ![c].st = "rejected", ![c].err = <<e>>]
  /\ UNCHANGED csVars
  /\ UNCHANGED runVars
  /\ UNCHANGED extVars

\* ------------------------------------------------- the options argument

\* the options argument of run() and in(): absent in run(ctx, fn), else
\* the TxnOptions of run(ctx, opts, fn)
OptsArgs == {"absent", "readOnly", "readWrite"}

\* `if (typeof fnOrOpts === 'function') { opts = undefined } else { opts =
\* fnOrOpts }`
ResolveOpts_dropped(a) == "undefined"

ResolveOpts(a) == IF a = "absent" THEN "undefined" ELSE a

\* in(): `if (opts == undefined) return this.run(ctx, fn); else return
\* this.run(ctx, opts, fn)`: the opts the run() it calls resolves
InForwards(o) == IF o = "undefined" THEN ResolveOpts("absent") ELSE ResolveOpts(o)

\* the opts of `txnSrc.beginTxn(ctx, opts)`
PassedOpts ==
  IF entry = "in" THEN InForwards(ResolveOpts(optsArg)) ELSE ResolveOpts(optsArg)

\* ------------------------------------------- the reference stack backend

PushValues == {"c", "d"}
InitialStacks == {<<>>, <<"a", "b">>}

ReadOnlyError == ErrorObj(<<"Cannot push or pop: Transaction is read-only">>)
TxnCompleteError == ErrorObj(<<"Transaction is already complete">>)

\* The backend over the array st, with no transaction.  stack: the array
\* of MemStackPool; initial: its content before the call; open: beginTxn
\* was called; snap, ops, done, readOnly: the fields of the MemStackTxn.
MemOf(st) ==
  [stack |-> st, initial |-> st, open |-> FALSE, snap |-> <<>>, ops |-> <<>>,
   done |-> FALSE, readOnly |-> FALSE]

\* new MemStackTxn(con, stack, opts, ...)
MemBegin(m, o) ==
  [m EXCEPT !.open = TRUE, !.snap = m.stack, !.ops = <<>>, !.done = FALSE,
            !.readOnly = (o = "readOnly")]

\* MemStackTxn.push(ctx, v), after #checkStatus(true)
MemPush_writeThrough(m, v) ==
  [m EXCEPT !.ops = Append(m.ops, v), !.snap = Append(m.snap, v),
            !.stack = Append(m.stack, v)]

MemPush(m, v) == [m EXCEPT !.ops = Append(m.ops, v), !.snap = Append(m.snap, v)]

\* MemStackTxn.commit: `await this.#con.push(ctx, op.val)` for the k-th op
MemApply(m, k) == [m EXCEPT !.stack = Append(m.stack, m.ops[k])]

\* MemStackTxn.commit(), up to its first await
StackCommit(by) ==
  /\ IF mem.done
     THEN /\ calls' = Append(calls,
                 Invocation("commit", by, "rejected", <<TxnCompleteError>>, 0))
          /\ UNCHANGED mem
     ELSE IF mem.ops = <<>>
     THEN /\ calls' = Append(calls, Invocation("commit", by, "resolved", <<>>, 0))
          /\ mem' = [mem EXCEPT !.done = TRUE]
     ELSE /\ calls' = Append(calls, Invocation("commit", by, "running", <<>>, 1))
          /\ mem' = MemApply([mem EXCEPT !.done = TRUE], 1)
  /\ UNCHANGED csVars
  /\ UNCHANGED <<entry, thisRun, cbArgs, parentCalls, commitTxn, lateTxn, inner>>
  /\ UNCHANGED <<factory, optsArg, beginOpts>>

\* MemStackTxn.commit() resumes after an await in its loop: it applies the
\* next operation, or completes
StackCommitStep ==
  \E c \in 1..Len(calls) :
    /\ runner = "stack"
    /\ calls[c].op = "commit" /\ calls[c].st = "running"
    /\ IF calls[c].idx < Len(mem.ops)
       THEN /\ mem' = MemApply(mem, calls[c].idx + 1)
            /\ calls' = [calls EXCEPT ![c].idx = calls[c].idx + 1]
       ELSE /\ calls' = [calls EXCEPT ![c].st = "resolved", ![c].idx = 0]
            /\ UNCHANGED mem
    /\ UNCHANGED csVars
    /\ UNCHANGED runVars
    /\ UNCHANGED <<entry, thisRun, cbArgs, parentCalls, commitTxn, lateTxn, inner>>
    /\ UNCHANGED <<factory, optsArg, beginOpts>>

\* MemStackTxn.rollback(): it has no child transaction and completes
StackRollback(by) ==
  /\ IF mem.done
     THEN /\ calls' = Append(calls,
                 Invocation("rollback", by, "rejected", <<TxnCompleteError>>, 0))
          /\ UNCHANGED mem
     ELSE /\ calls' = Append(calls, Invocation("rollback", by, "resolved", <<>>, 0))
          /\ mem' = [mem EXCEPT !.done = TRUE]
  /\ UNCHANGED csVars
  /\ UNCHANGED <<entry, thisRun, cbArgs, parentCalls, commitTxn, lateTxn, inner>>
  /\ UNCHANGED <<factory, optsArg, beginOpts>>

\* ----------------------------------------------- txn() and txnChangeSet()

Bundles == {"A", "B"}

NoAccessorsError == ErrorObj(<<"No transaction accessors defined on context">>)

\* A call of txn() or txnChangeSet().  arg: the accessor bundle passed, or
\* "ctx" for a context; attached: the bundle withTxnAccessor put on that
\* context, or "none"; st: "new" before the call, then "built" or "threw";
\* accessor: the bundle the TxnRunnerImpl was constructed with.
FactoryCalls ==
  [arg : {"A", "ctx"}, attached : Bundles \cup {"none"}, st : {"new"},
   accessor : {"none"}, error : {<<>>}]

\* the call that built the runner of a run() on an explicit bundle
FactoryDone ==
  [arg |-> "A", attached |-> "none", st |-> "built", accessor |-> "A", error |-> <<>>]

\* getTxnAccessor(ctx)
getTxnAccessor_fixed(f) == IF f.attached = "none" THEN "none" ELSE "A"

getTxnAccessor(f) == f.attached

\* txn(ctxOrAccessor) and txnChangeSet(ctxOrAccessor)
FactoryCall_unchecked(f) ==
  IF f.arg \in Bundles
  THEN [f EXCEPT !.st = "built", !.accessor = f.arg]
  ELSE [f EXCEPT !.st = "built", !.accessor = getTxnAccessor(f)]

FactoryCall(f) ==
  IF f.arg \in Bundles
  THEN [f EXCEPT !.st = "built", !.accessor = f.arg]
  ELSE IF getTxnAccessor(f) = "none"
  THEN [f EXCEPT !.st = "threw", !.error = <<NoAccessorsError>>]
  ELSE [f EXCEPT !.st = "built", !.accessor = getTxnAccessor(f)]

\* ------------------------------------------------------- TxnChangeSetImpl

\* the inner run before TxnChangeSetImpl.commit() has made it.  call: the
\* commit() invocation that awaits it; idx: the position in #commitTxn of
\* the transactional action its callback awaits; calls: the commit() and
\* rollback() calls on the backend transaction it opened
InnerIdle ==
  [pc |-> "idle", call |-> 0, beginCalls |-> <<>>, idx |-> 0, cbResult |-> "none",
   caught |-> <<>>, calls |-> <<>>, outcome |-> "pending", error |-> <<>>]

\* deferTxn(fn): pushes, with no status check
DeferTxn ==
  /\ Len(commitTxn) < MaxFns
  /\ commitTxn' = Append(commitTxn, nextId)
  /\ nextId' = nextId + 1
  /\ lateTxn' = IF done THEN lateTxn \cup {nextId} ELSE lateTxn
  /\ UNCHANGED <<commitFns, rollbackFns, done, ignoreStatus, execLog, rejected, calls>>
  /\ UNCHANGED <<entry, thisRun, cbArgs, parentCalls, inner>>
  /\ UNCHANGED envVars

\* commit(): `if (this.#commitTxn.length > 0)`
HasTxnPhase_always == TRUE

HasTxnPhase == Len(commitTxn) > 0

\* this.#txnRunner.run(ctx, callback), up to `await txnSrc.beginTxn(ctx)`,
\* made by commit() invocation c.  The runner is txn(accessor) and ctx is
\* the context the change set was created with.
InnerRunCall_beginsTwice(c) ==
  IF ~getTransactable("txn", ctx)
  THEN [InnerIdle EXCEPT !.call = c, !.pc = "done", !.outcome = "rejected",
                         !.error = <<NoSourceError>>]
  ELSE IF ctx.backendTxn # "none" /\ ~isTransactable(ctx.backendTxn)
  THEN [InnerIdle EXCEPT !.call = c, !.pc = "done", !.outcome = "rejected",
                         !.error = <<NestedTxnError>>]
  ELSE [InnerIdle EXCEPT !.call = c, !.pc = "begin",
                         !.beginCalls = <<TxnSource([existing |-> ctx.backendTxn]),
                                          TxnSource([existing |-> ctx.backendTxn])>>]

InnerRunCall(c) ==
  IF ~getTransactable("txn", ctx)
  THEN [InnerIdle EXCEPT !.call = c, !.pc = "done", !.outcome = "rejected",
                         !.error = <<NoSourceError>>]
  ELSE IF ctx.backendTxn # "none" /\ ~isTransactable(ctx.backendTxn)
  THEN [InnerIdle EXCEPT !.call = c, !.pc = "done", !.outcome = "rejected",
                         !.error = <<NestedTxnError>>]
  ELSE [InnerIdle EXCEPT !.call = c, !.pc = "begin",
                         !.beginCalls = <<TxnSource([existing |-> ctx.backendTxn])>>]

\* TxnChangeSetImpl.commit(), up to its first await.  When checkStatus
\* throws, or with no transactional action, it is the commit() of
\* ChangeSetImpl; otherwise it marks the set done and calls the inner run.
TxnCsCommit(by) ==
  IF checkStatus \/ ~HasTxnPhase
  THEN CsCommit(by) /\ UNCHANGED extVars
  ELSE /\ done' = TRUE
       /\ calls' = Append(calls, Invocation("commit", by, "running", <<>>, 0))
       /\ inner' = InnerRunCall(Len(calls) + 1)
       /\ UNCHANGED <<ignoreStatus, execLog>>
       /\ UNCHANGED <<commitFns, rollbackFns, nextId, rejected>>
       /\ UNCHANGED <<entry, thisRun, cbArgs, parentCalls, commitTxn, lateTxn>>
       /\ UNCHANGED envVars
  /\ UNCHANGED envVars

\* beginTxn of the inner run settles.  Resolved: the inner run invokes its
\* callback, which calls the first transactional action.  Rejected: the
\* inner run rejects with the same value.
InnerBeginTxn ==
  /\ runner = "txnChangeSet"
  /\ inner.pc = "begin"
  /\ \/ IF commitTxn = <<>>
        THEN /\ inner' = [inner EXCEPT !.pc = "awaitCommit", !.cbResult = "ok",
                            !.calls = <<Invocation("commit", "runner", "running", <<>>, 0)>>]
             /\ UNCHANGED execLog
        ELSE /\ inner' = [inner EXCEPT !.pc = "callback", !.idx = 1]
             /\ execLog' = Append(execLog,
                    Event("txn", IterAt(commitTxn, 1), "start", inner.call))
     \/ /\ \E e \in BeginThrows :
             inner' = [inner EXCEPT !.pc = "done", !.outcome = "rejected", !.error = <<e>>]
        /\ UNCHANGED execLog
  /\ UNCHANGED <<commitFns, rollbackFns, done, ignoreStatus, nextId, rejected, calls>>
  /\ UNCHANGED <<entry, thisRun, cbArgs, parentCalls, commitTxn, lateTxn>>
  /\ UNCHANGED envVars
  /\ UNCHANGED runVars

\* The transactional action the callback of the inner run awaits ends with
\* r.  The callback calls the next one; or it ends, and the inner run
\* resumes after `await fn(txnContext, txn)`: it calls commit() on the
\* backend transaction, or, in the catch clause, rollback().
InnerActionEnd(r) ==
  LET id == IterAt(commitTxn, inner.idx)
      ended == Append(execLog, Event("txn", id, r, inner.call))
  IN
  /\ runner = "txnChangeSet"
  /\ inner.pc = "callback"
  /\ IF LoopContinues(r, inner.idx, Len(commitTxn))
     THEN /\ inner' = [inner EXCEPT !.idx = inner.idx + 1]
          /\ execLog' = Append(ended,
                 Event("txn", IterAt(commitTxn, inner.idx + 1), "start", inner.call))
     ELSE /\ execLog' = ended
          /\ inner' = IF r = "ok"
                      THEN [inner EXCEPT !.pc = "awaitCommit", !.idx = 0, !.cbResult = "ok",
                              !.calls = <<Invocation("commit", "runner", "running", <<>>, 0)>>]
                      ELSE [inner EXCEPT !.pc = "awaitRollback", !.idx = 0,
                              !.cbResult = "raise", !.caught = <<ActionError(id)>>,
                              !.calls = <<Invocation("rollback", "runner", "running", <<>>, 0)>>]
  /\ UNCHANGED <<commitFns, rollbackFns, done, ignoreStatus, nextId, rejected, calls>>
  /\ UNCHANGED <<entry, thisRun, cbArgs, parentCalls, commitTxn, lateTxn>>
  /\ UNCHANGED envVars
  /\ UNCHANGED runVars

InnerActionStep == \E r \in {"ok", "raise"} : InnerActionEnd(r)

\* the backend settles the pending call of the inner run
InnerBackendSettle ==
  LET n == Len(inner.calls) IN
  /\ runner = "txnChangeSet"
  /\ n > 0
  /\ inner.calls[n].st = "running"
  /\ \/ inner' = [inner EXCEPT !.calls[n].st = "resolved"]
     \/ \E e \in (IF inner.calls[n].op = "commit" THEN CommitThrows ELSE RollbackThrows) :
          inner' = [inner EXCEPT !.calls[n].st = "rejected", !.calls[n].err = <<e>>]
  /\ UNCHANGED <<calls, entry, thisRun, cbArgs, parentCalls, commitTxn, lateTxn>>
  /\ UNCHANGED envVars
  /\ UNCHANGED csVars
  /\ UNCHANGED runVars

\* the inner run resumes after `await txn.commit()`
InnerAfterCommit ==
  LET n == Len(inner.calls) IN
  /\ runner = "txnChangeSet"
  /\ inner.pc = "awaitCommit"
  /\ inner.calls[n].st # "running"
  /\ inner' = IF inner.calls[n].st = "resolved"
              THEN [inner EXCEPT !.pc = "done", !.outcome = "resolved"]
              ELSE [inner EXCEPT !.pc = "awaitRollback", !.caught = inner.calls[n].err,
                      !.calls = Append(inner.calls,
                                  Invocation("rollback", "runner", "running", <<>>, 0))]
  /\ UNCHANGED <<calls, entry, thisRun, cbArgs, parentCalls, commitTxn, lateTxn>>
  /\ UNCHANGED envVars
  /\ UNCHANGED csVars
  /\ UNCHANGED runVars

\* the inner run resumes after `await txn.rollback()` and throws
InnerAfterRollback ==
  LET n == Len(inner.calls) IN
  /\ runner = "txnChangeSet"
  /\ inner.pc = "awaitRollback"
  /\ inner.calls[n].st # "running"
  /\ inner' = [inner EXCEPT !.pc = "done", !.outcome = "rejected",
                 !.error = IF inner.calls[n].st = "resolved"
                           THEN <<TransactionFailed(inner.caught[1])>>
                           ELSE inner.calls[n].err]
  /\ UNCHANGED <<calls, entry, thisRun, cbArgs, parentCalls, commitTxn, lateTxn>>
  /\ UNCHANGED envVars
  /\ UNCHANGED csVars
  /\ UNCHANGED runVars

\* commit() resumes after `await this.#txnRunner.run(...)`.  The inner run
\* rejected: the finally sets ignoreStatus and commit() rejects with the
\* same value.  It resolved: the finally clears ignoreStatus and commit()
\* goes on to the loop over commitFns, as ChangeSetImpl.commit() does.
TxnPhaseEnd_goesOn ==
  LET c == inner.call IN
  /\ runner = "txnChangeSet"
  /\ inner.pc = "done"
  /\ calls[c].st = "running" /\ calls[c].idx = 0
  /\ IF commitFns = <<>>
     THEN /\ calls' = [calls EXCEPT ![c].st = "resolved"]
          /\ ignoreStatus' = IgnoreAfterCommit(TRUE)
          /\ UNCHANGED execLog
     ELSE /\ calls' = [calls EXCEPT ![c].idx = 1]
          /\ ignoreStatus' = IgnoreAfterCommit(TRUE)
          /\ execLog' = Append(execLog, Event("commit", IterAt(commitFns, 1), "start", c))
  /\ UNCHANGED <<commitFns, rollbackFns, done, nextId, rejected>>
  /\ UNCHANGED extVars
  /\ UNCHANGED runVars

TxnPhaseEnd ==
  LET c == inner.call IN
  /\ runner = "txnChangeSet"
  /\ inner.pc = "done"
  /\ calls[c].st = "running" /\ calls[c].idx = 0
  /\ IF inner.outcome = "rejected"
     THEN /\ calls' = [calls EXCEPT ![c].st = "rejected", ![c].err = inner.error]
          /\ ignoreStatus' = IgnoreAfterCommit(FALSE)
          /\ UNCHANGED execLog
     ELSE IF commitFns = <<>>
     THEN /\ calls' = [calls EXCEPT ![c].st = "resolved"]
          /\ ignoreStatus' = IgnoreAfterCommit(TRUE)
          /\ UNCHANGED execLog
     ELSE /\ calls' = [calls EXCEPT ![c].idx = 1]
          /\ ignoreStatus' = IgnoreAfterCommit(TRUE)
          /\ execLog' = Append(execLog, Event("commit", IterAt(commitFns, 1), "start", c))
  /\ UNCHANGED <<commitFns, rollbackFns, done, nextId, rejected>>
  /\ UNCHANGED extVars
  /\ UNCHANGED runVars

BackendStep == \E c \in 1..Len(calls) : BackendSettle(c)

CsActionStep == \E c \in 1..Len(calls) : \E r \in {"ok", "raise"} : CsActionEnd(c, r)

\* txn.commit() / txn.rollback() on the transaction run() opened
TxnCommit(by) ==
  IF runner = "changeSet" THEN CsCommit(by) /\ UNCHANGED extVars
  ELSE IF runner = "txnChangeSet" THEN TxnCsCommit(by)
  ELSE IF runner = "stack" THEN StackCommit(by)
  ELSE BackendCall("commit", by) /\ UNCHANGED extVars

TxnRollback(by) ==
  IF runner \in {"changeSet", "txnChangeSet"} THEN CsRollback(by) /\ UNCHANGED extVars
  ELSE IF runner = "stack" THEN StackRollback(by)
  ELSE BackendCall("rollback", by) /\ UNCHANGED extVars

\* ------------------------------------------------------- TxnRunnerImpl.run

\* in() found a transaction on the context and joins it
Joined == entry = "in" /\ ctx.existing # "none"

\* the transaction run() opened exists: the callback has been invoked
TxnOpened == ~Joined /\ (pc = "callback" \/ cbResult # "none")

\* run(), up to `await txnSrc.beginTxn(ctx, opts)`
RunBody_fnUnchecked ==
  /\ pc = "idle"
  /\ IF ~getTransactable(runner, ctx)
     THEN /\ pc' = "done" /\ outcome' = "rejected" /\ error' = <<NoSourceError>>
          /\ UNCHANGED beginCalls
     ELSE IF ctx.existing # "none" /\ ~isTransactable(ctx.existing)
     THEN /\ pc' = "done" /\ outcome' = "rejected" /\ error' = <<NestedTxnError>>
          /\ UNCHANGED beginCalls
     ELSE /\ pc' = "begin"
          /\ beginCalls' = Append(beginCalls, TxnSource(ctx))
          /\ UNCHANGED <<outcome, error>>
  /\ UNCHANGED <<runner, ctx, fnGiven, cbResult, cbThrown, caught, calls>>
  /\ UNCHANGED csVars

RunBody_beginFirst ==
  /\ pc = "idle"
  /\ IF ~getTransactable(runner, ctx)
     THEN /\ pc' = "done" /\ outcome' = "rejected" /\ error' = <<NoSourceError>>
          /\ UNCHANGED beginCalls
     ELSE IF ~fnGiven
     THEN /\ pc' = "done" /\ outcome' = "rejected" /\ error' = <<MissingCallbackError>>
          /\ UNCHANGED beginCalls
     ELSE IF ctx.existing # "none" /\ ~isTransactable(ctx.existing)
     THEN /\ pc' = "done" /\ outcome' = "rejected" /\ error' = <<NestedTxnError>>
          /\ beginCalls' = Append(beginCalls, TxnSource(ctx))
     ELSE /\ pc' = "begin"
          /\ beginCalls' = Append(beginCalls, TxnSource(ctx))
          /\ UNCHANGED <<outcome, error>>
  /\ UNCHANGED <<runner, ctx, fnGiven, cbResult, cbThrown, caught, calls>>
  /\ UNCHANGED csVars

RunBody ==
  /\ pc = "idle"
  /\ IF ~getTransactable(runner, ctx)
     THEN /\ pc' = "done" /\ outcome' = "rejected" /\ error' = <<NoSourceError>>
          /\ UNCHANGED beginCalls
     ELSE IF ~fnGiven
     THEN /\ pc' = "done" /\ outcome' = "rejected" /\ error' = <<MissingCallbackError>>
          /\ UNCHANGED beginCalls
     ELSE IF ctx.existing # "none" /\ ~isTransactable(ctx.existing)
     THEN /\ pc' = "done" /\ outcome' = "rejected" /\ error' = <<NestedTxnError>>
          /\ UNCHANGED beginCalls
     ELSE /\ pc' = "begin"
          /\ beginCalls' = Append(beginCalls, TxnSource(ctx))
          /\ UNCHANGED <<outcome, error>>
  /\ UNCHANGED <<runner, ctx, fnGiven, cbResult, cbThrown, caught, calls>>
  /\ UNCHANGED csVars

\* run(ctx, fn) is called
Run ==
  /\ entry = "run"
  /\ RunBody
  /\ UNCHANGED extVars

\* what `await fn(ctx, existingTxn)` throws when fn is undefined
NotAFunctionError == ErrorObj(<<"fn is not a function">>)

\* in(ctx, fn) is called.  With a transaction on the context it invokes the
\* callback with the same context and that transaction; without one it
\* returns this.run(ctx, fn).
In_alwaysRun ==
  /\ entry = "in"
  /\ RunBody
  /\ UNCHANGED extVars

In_alwaysJoin ==
  /\ entry = "in"
  /\ pc = "idle"
  /\ pc' = "joined"
  /\ cbArgs' = <<[ctx |-> "same", txn |-> "existing"]>>
  /\ UNCHANGED <<outcome, error>>
  /\ UNCHANGED <<runner, ctx, fnGiven, beginCalls, cbResult, cbThrown, caught, calls>>
  /\ UNCHANGED csVars
  /\ UNCHANGED <<entry, thisRun, parentCalls, commitTxn, lateTxn, inner>>
  /\ UNCHANGED envVars

In ==
  /\ entry = "in"
  /\ pc = "idle"
  /\ IF ctx.existing # "none"
     THEN /\ IF fnGiven
             THEN /\ pc' = "joined"
                  /\ cbArgs' = <<[ctx |-> "same", txn |-> "existing"]>>
                  /\ UNCHANGED <<outcome, error>>
             ELSE /\ pc' = "done" /\ outcome' = "rejected"
                  /\ error' = <<NotAFunctionError>>
                  /\ UNCHANGED cbArgs
          /\ UNCHANGED <<runner, ctx, fnGiven, beginCalls, cbResult, cbThrown, caught, calls>>
          /\ UNCHANGED csVars
     ELSE /\ RunBody
          /\ UNCHANGED cbArgs
  /\ UNCHANGED <<entry, thisRun, parentCalls, commitTxn, lateTxn, inner>>
  /\ UNCHANGED envVars

\* the callback of a joining in() returns and in() returns
JoinedReturn ==
  /\ pc = "joined"
  /\ pc' = "done"
  /\ cbResult' = "ok"
  /\ outcome' = "resolved"
  /\ UNCHANGED <<runner, ctx, fnGiven, beginCalls, cbThrown, caught, error, calls>>
  /\ UNCHANGED csVars
  /\ UNCHANGED extVars

\* what a joining in() rejects with when its callback throws v: the await is
\* in no try, so it is v itself
JoinedFailure_wrapped(v) == TransactionFailed(v)

JoinedFailure(v) == v

\* the callback of a joining in() throws v: the await is in no try, in()
\* rejects with v
JoinedRaise(v) ==
  /\ pc = "joined"
  /\ pc' = "done"
  /\ cbResult' = "raise"
  /\ cbThrown' = <<v>>
  /\ outcome' = "rejected"
  /\ error' = <<JoinedFailure(v)>>
  /\ UNCHANGED <<runner, ctx, fnGiven, beginCalls, caught, calls>>
  /\ UNCHANGED csVars
  /\ UNCHANGED extVars

JoinedRaiseStep == \E v \in CallbackThrows : JoinedRaise(v)

\* The call was made inside the callback of the run() that opened the
\* transaction found on the context, and that callback awaited it.  When
\* that callback ends, the enclosing run() calls commit() or rollback() on
\* its transaction.
EnclosingEnd ==
  /\ pc = "done"
  /\ ctx.existing # "none"
  /\ parentCalls = <<>>
  /\ \E op \in {"commit", "rollback"} : parentCalls' = <<op>>
  /\ UNCHANGED <<entry, thisRun, cbArgs, commitTxn, lateTxn, inner>>
  /\ UNCHANGED envVars
  /\ UNCHANGED runVars
  /\ UNCHANGED csVars
  /\ calls' = calls

\* The fields of the change set beginTxn resolves with: csBuilder and the
\* accessor of makeTxnCsAccessor construct a new one on every call, with
\* empty lists, done and ignoreStatus false, and no commit made yet.
NewChangeSet_pooled ==
  [commitFns |-> commitFns, rollbackFns |-> rollbackFns, commitTxn |-> commitTxn,
   lateTxn |-> lateTxn, done |-> done, ignoreStatus |-> ignoreStatus, inner |-> inner]

NewChangeSet ==
  [commitFns |-> <<>>, rollbackFns |-> <<>>, commitTxn |-> <<>>,
   lateTxn |-> {}, done |-> FALSE, ignoreStatus |-> FALSE, inner |-> InnerIdle]

\* the change-set fields after beginTxn: those of the new change set for a
\* change-set runner; a backend runner has no change set
Opened ==
  IF runner \in {"changeSet", "txnChangeSet"}
  THEN NewChangeSet
  ELSE [commitFns |-> commitFns, rollbackFns |-> rollbackFns, commitTxn |-> commitTxn,
        lateTxn |-> lateTxn, done |-> done, ignoreStatus |-> ignoreStatus, inner |-> inner]

\* what run() rejects with when beginTxn(ctx, opts) rejects with e: the await
\* is before the try, so it is e itself
BeginFailure_wrapped(e) == TransactionFailed(e)

BeginFailure(e) == e

\* beginTxn(ctx, opts) settles.  Resolved: run() resumes, derives the child context
\* and invokes the callback.  Rejected (never by csBuilder, which returns
\* Promise.resolve): the await is outside the try, run() rejects with the
\* same value.
BeginTxn ==
  /\ pc = "begin"
  /\ \/ /\ pc' = "callback"
        /\ cbArgs' = <<[ctx |-> "child", txn |-> "opened"]>>
        /\ mem' = IF runner = "stack" THEN MemBegin(mem, PassedOpts) ELSE mem
        /\ UNCHANGED <<outcome, error>>
     \/ /\ runner = "txn"
        /\ \E e \in BeginThrows :
             /\ pc' = "done" /\ outcome' = "rejected" /\ error' = <<BeginFailure(e)>>
        /\ UNCHANGED <<cbArgs, mem>>
  /\ beginOpts' = Append(beginOpts, PassedOpts)
  /\ commitFns' = Opened.commitFns
  /\ rollbackFns' = Opened.rollbackFns
  /\ commitTxn' = Opened.commitTxn
  /\ lateTxn' = Opened.lateTxn
  /\ done' = Opened.done
  /\ ignoreStatus' = Opened.ignoreStatus
  /\ inner' = Opened.inner
  /\ UNCHANGED <<runner, ctx, fnGiven, beginCalls, cbResult, cbThrown, caught, calls>>
  /\ UNCHANGED <<execLog, nextId, rejected>>
  /\ UNCHANGED <<entry, thisRun, parentCalls>>
  /\ UNCHANGED <<factory, optsArg>>

\* run() or in() is called again on the same runner, after the call before
\* it has settled and every commit() and rollback() it made has ended.  What
\* was recorded of the call before is dropped; the change set it opened is
\* still there, completed.
RunAgain ==
  /\ pc = "done"
  /\ thisRun.no < MaxRuns
  /\ \A i \in 1..Len(calls) : Settled(i)
  /\ inner.pc \in {"idle", "done"}
  /\ pc' = "idle"
  /\ thisRun' = [no |-> thisRun.no + 1, firstId |-> nextId]
  /\ beginCalls' = <<>> /\ beginOpts' = <<>>
  /\ cbArgs' = <<>> /\ cbResult' = "none" /\ cbThrown' = <<>>
  /\ caught' = <<>> /\ outcome' = "pending" /\ error' = <<>>
  /\ calls' = <<>> /\ parentCalls' = <<>>
  /\ execLog' = <<>> /\ rejected' = 0
  /\ inner' = InnerIdle
  /\ UNCHANGED <<runner, entry, ctx, fnGiven, factory, optsArg, mem>>
  /\ UNCHANGED <<commitFns, rollbackFns, commitTxn, lateTxn, done, ignoreStatus, nextId>>

\* the callback returns, or the promise it returned resolves
CallbackReturn ==
  /\ pc = "callback"
  /\ pc' = "afterCallback"
  /\ cbResult' = "ok"
  /\ UNCHANGED <<runner, ctx, fnGiven, beginCalls, cbThrown, caught, outcome, error, calls>>
  /\ UNCHANGED csVars
  /\ UNCHANGED extVars

\* the callback throws v, or the promise it returned rejects with v
CallbackRaise(v) ==
  /\ pc = "callback"
  /\ pc' = "afterCallback"
  /\ cbResult' = "raise"
  /\ cbThrown' = <<v>>
  /\ UNCHANGED <<runner, ctx, fnGiven, beginCalls, caught, outcome, error, calls>>
  /\ UNCHANGED csVars
  /\ UNCHANGED extVars

CallbackRaiseStep == \E v \in CallbackThrows : CallbackRaise(v)

\* run() resumes after `await fn(txnContext, txn)`: it calls txn.commit(),
\* or, in the catch clause, txn.rollback()
RunnerAfterCallback_commitAnyway ==
  /\ pc = "afterCallback"
  /\ pc' = "awaitCommit"
  /\ TxnCommit("runner")
  /\ UNCHANGED <<runner, ctx, fnGiven, beginCalls, cbResult, cbThrown, caught, outcome, error>>

RunnerAfterCallback ==
  /\ pc = "afterCallback"
  /\ IF cbResult = "ok"
     THEN /\ pc' = "awaitCommit"
          /\ TxnCommit("runner")
          /\ UNCHANGED caught
     ELSE /\ pc' = "awaitRollback"
          /\ caught' = cbThrown
          /\ TxnRollback("runner")
  /\ UNCHANGED <<runner, ctx, fnGiven, beginCalls, cbResult, cbThrown, outcome, error>>

\* run() resumes after `await txn.commit()`: it returns, or, in the catch
\* clause, calls txn.rollback()
RunnerAfterCommit_swallow ==
  /\ pc = "awaitCommit"
  /\ \E c \in CallsOf("commit", "runner") :
       /\ Settled(c)
       /\ pc' = "done" /\ outcome' = "resolved"
       /\ UNCHANGED <<caught, calls>> /\ UNCHANGED csVars /\ UNCHANGED extVars
  /\ UNCHANGED <<runner, ctx, fnGiven, beginCalls, cbResult, cbThrown, error>>

RunnerAfterCommit_rollbackAlways ==
  /\ pc = "awaitCommit"
  /\ \E c \in CallsOf("commit", "runner") :
       /\ Settled(c)
       /\ pc' = "awaitRollback"
       /\ caught' = IF calls[c].st = "rejected" THEN calls[c].err ELSE <<NullVal>>
       /\ TxnRollback("runner")
       /\ UNCHANGED outcome
  /\ UNCHANGED <<runner, ctx, fnGiven, beginCalls, cbResult, cbThrown, error>>

RunnerAfterCommit ==
  /\ pc = "awaitCommit"
  /\ \E c \in CallsOf("commit", "runner") :
       /\ Settled(c)
       /\ IF calls[c].st = "resolved"
          THEN /\ pc' = "done" /\ outcome' = "resolved"
               /\ UNCHANGED <<caught, calls>> /\ UNCHANGED csVars /\ UNCHANGED extVars
          ELSE /\ pc' = "awaitRollback"
               /\ caught' = calls[c].err
               /\ TxnRollback("runner")
               /\ UNCHANGED outcome
  /\ UNCHANGED <<runner, ctx, fnGiven, beginCalls, cbResult, cbThrown, error>>

\* run() resumes after `await txn.rollback()` in the catch clause: it
\* throws the "Transaction failed" Error, or, when rollback() rejected, the
\* await throws what rollback() rejected with
RunnerAfterRollback ==
  /\ pc = "awaitRollback"
  /\ \E c \in CallsOf("rollback", "runner") :
       /\ Settled(c)
       /\ error' = IF calls[c].st = "resolved"
                   THEN <<TransactionFailed(caught[1])>>
                   ELSE calls[c].err
  /\ pc' = "done"
  /\ outcome' = "rejected"
  /\ UNCHANGED <<runner, ctx, fnGiven, beginCalls, cbResult, cbThrown, caught, calls>>
  /\ UNCHANGED csVars
  /\ UNCHANGED extVars

\* ------------------------------------- the callback and the deferred actions

\* The callback, a deferred action, or code the change set was handed on
\* to calls a method of the change set.
UserCalls == {i \in 1..Len(calls) : calls[i].by = "user"}

\* a further action can be registered
CanRegister == runner = "txnChangeSet" => nextId - thisRun.firstId < MaxTxnCsActions

UserDefer ==
  /\ runner \in {"changeSet", "txnChangeSet"} /\ TxnOpened
  /\ done \/ CanRegister
  /\ Defer
  /\ UNCHANGED runVars
  /\ UNCHANGED extVars

UserDeferFail ==
  /\ runner \in {"changeSet", "txnChangeSet"} /\ TxnOpened
  /\ done \/ CanRegister
  /\ DeferFail
  /\ UNCHANGED runVars
  /\ UNCHANGED extVars

UserCommit ==
  /\ runner \in {"changeSet", "txnChangeSet"} /\ TxnOpened
  /\ Cardinality(UserCalls) < MaxUserCalls
  /\ TxnCommit("user")
  /\ UNCHANGED runVars

UserRollback ==
  /\ runner \in {"changeSet", "txnChangeSet"} /\ TxnOpened
  /\ Cardinality(UserCalls) < MaxUserCalls
  /\ TxnRollback("user")
  /\ UNCHANGED runVars

UserDeferTxn ==
  /\ runner = "txnChangeSet" /\ TxnOpened
  /\ CanRegister
  /\ DeferTxn
  /\ UNCHANGED runVars

\* The callback calls txn.push(ctx, v) on the stack transaction.  When
\* #checkStatus(true) throws, the callback lets the error propagate.
StackPush ==
  /\ runner = "stack" /\ pc = "callback"
  /\ Len(mem.ops) < MaxPush
  /\ IF mem.done \/ mem.readOnly
     THEN /\ pc' = "afterCallback"
          /\ cbResult' = "raise"
          /\ cbThrown' = <<IF mem.done THEN TxnCompleteError ELSE ReadOnlyError>>
          /\ UNCHANGED mem
     ELSE /\ \E v \in PushValues : mem' = MemPush(mem, v)
          /\ UNCHANGED <<pc, cbResult, cbThrown>>
  /\ UNCHANGED <<runner, ctx, fnGiven, beginCalls, caught, outcome, error, calls>>
  /\ UNCHANGED csVars
  /\ UNCHANGED <<entry, thisRun, cbArgs, parentCalls, commitTxn, lateTxn, inner>>
  /\ UNCHANGED <<factory, optsArg, beginOpts>>

\* txn(...) or txnChangeSet(...) is called; a runner it returns is then
\* used for the run() or in() call
Factory ==
  /\ pc = "new"
  /\ factory' = FactoryCall(factory)
  /\ pc' = IF FactoryCall(factory).st = "built" THEN "idle" ELSE "noRunner"
  /\ UNCHANGED <<runner, ctx, fnGiven, beginCalls, cbResult, cbThrown, caught, outcome,
                 error, calls>>
  /\ UNCHANGED csVars
  /\ UNCHANGED <<entry, thisRun, cbArgs, parentCalls, commitTxn, lateTxn, inner>>
  /\ UNCHANGED <<optsArg, beginOpts, mem>>

\* ------------------------------------------------------------ specification

\* the state before the call, whatever the runner, the method and the context
InitState ==
  /\ ctx \in Contexts(runner)
  /\ fnGiven \in BOOLEAN
  /\ cbArgs = <<>>
  /\ parentCalls = <<>>
  /\ commitTxn = <<>>
  /\ lateTxn = {}
  /\ inner = InnerIdle
  /\ beginCalls = <<>>
  /\ beginOpts = <<>>
  /\ cbResult = "none"
  /\ cbThrown = <<>>
  /\ caught = <<>>
  /\ outcome = "pending"
  /\ error = <<>>
  /\ calls = <<>>
  /\ commitFns = <<>>
  /\ rollbackFns = <<>>
  /\ done = FALSE
  /\ ignoreStatus = FALSE
  /\ execLog = <<>>
  /\ nextId = 1
  /\ rejected = 0
  /\ thisRun = [no |-> 1, firstId |-> 1]

\* a call without options on a runner built from an explicit bundle
InitRest ==
  /\ pc = "idle"
  /\ factory = FactoryDone
  /\ optsArg = "absent"
  /\ mem = MemOf(<<>>)
  /\ InitState

Init ==
  /\ runner \in {"txn", "changeSet"}
  /\ entry = "run"
  /\ InitRest

Next ==
  \/ Run
  \/ BeginTxn
  \/ CallbackReturn
  \/ CallbackRaiseStep
  \/ RunnerAfterCallback
  \/ RunnerAfterCommit
  \/ RunnerAfterRollback
  \/ BackendStep
  \/ UserDefer
  \/ UserDeferFail
  \/ UserCommit
  \/ UserRollback
  \/ CsActionStep

Spec == Init /\ [][Next]_vars

\* run() and in(), on contexts with and without a transaction, with a
\* callback that defers actions and leaves commit and rollback to the runner
InitEntry ==
  /\ runner \in {"txn", "changeSet"}
  /\ entry \in {"run", "in"}
  /\ InitRest

NextEntry ==
  \/ Run
  \/ In
  \/ BeginTxn
  \/ CallbackReturn
  \/ CallbackRaiseStep
  \/ JoinedReturn
  \/ JoinedRaiseStep
  \/ RunnerAfterCallback
  \/ RunnerAfterCommit
  \/ RunnerAfterRollback
  \/ BackendStep
  \/ UserDefer
  \/ UserDeferFail
  \/ CsActionStep
  \/ EnclosingEnd

SpecEntry == InitEntry /\ [][NextEntry]_vars

\* The same calls, with every awaited promise settling: beginTxn, the
\* callback, each deferred action, commit and rollback terminate, and the
\* continuation of run() after an await that has settled is run.
Terminating ==
  /\ WF_vars(BeginTxn)
  /\ WF_vars(CallbackReturn \/ CallbackRaiseStep)
  /\ WF_vars(JoinedReturn \/ JoinedRaiseStep)
  /\ WF_vars(BackendStep)
  /\ WF_vars(CsActionStep)
  /\ WF_vars(RunnerAfterCallback)
  /\ WF_vars(RunnerAfterCommit)
  /\ WF_vars(RunnerAfterRollback)

SpecLive == InitEntry /\ [][NextEntry]_vars /\ Terminating

\* run() of a txnChangeSet() runner
InitTxnCs ==
  /\ runner = "txnChangeSet"
  /\ entry = "run"
  /\ InitRest

NextTxnCs ==
  \/ Run
  \/ BeginTxn
  \/ CallbackReturn
  \/ CallbackRaiseStep
  \/ RunnerAfterCallback
  \/ RunnerAfterCommit
  \/ RunnerAfterRollback
  \/ UserDefer
  \/ UserDeferFail
  \/ UserDeferTxn
  \/ CsActionStep
  \/ InnerBeginTxn
  \/ InnerActionStep
  \/ InnerBackendSettle
  \/ InnerAfterCommit
  \/ InnerAfterRollback
  \/ TxnPhaseEnd

SpecTxnCs == InitTxnCs /\ [][NextTxnCs]_vars

\* A change set or transaction change set in the hands of a callback that
\* does not end: any sequence and interleaving of defer, deferFail,
\* deferTxn, commit and rollback calls on it, made by the callback and by
\* the deferred actions
InitCalls ==
  /\ runner \in {"changeSet", "txnChangeSet"}
  /\ entry = "run"
  /\ InitRest
  /\ fnGiven /\ ctx.existing = "none"

NextCalls ==
  \/ Run
  \/ BeginTxn
  \/ UserDefer
  \/ UserDeferFail
  \/ UserDeferTxn
  \/ UserCommit
  \/ UserRollback
  \/ CsActionStep
  \/ InnerBeginTxn
  \/ InnerActionStep
  \/ InnerBackendSettle
  \/ InnerAfterCommit
  \/ InnerAfterRollback
  \/ TxnPhaseEnd

SpecCalls == InitCalls /\ [][NextCalls]_vars

\* A run() of the change-set runner whose callback returns, with commit()
\* and rollback() also called on the change set by the code that holds it,
\* before, during and after the runner's own calls.
InitPermit ==
  /\ runner = "changeSet"
  /\ entry = "run"
  /\ InitRest
  /\ fnGiven /\ ctx.existing = "none"

NextPermit ==
  \/ Run
  \/ BeginTxn
  \/ CallbackReturn
  \/ RunnerAfterCallback
  \/ RunnerAfterCommit
  \/ RunnerAfterRollback
  \/ UserDefer
  \/ UserDeferFail
  \/ UserCommit
  \/ UserRollback
  \/ CsActionStep

SpecPermit == InitPermit /\ [][NextPermit]_vars

\* Calls of run() or in(), one after the other on one change-set runner,
\* on a context with a source and no open transaction.  in() is called on
\* the changeSet runner; on such a context it returns this.run(ctx, fn),
\* for either runner.
InitRuns ==
  /\ runner \in {"changeSet", "txnChangeSet"}
  /\ entry \in {"run", "in"}
  /\ InitRest
  /\ fnGiven /\ ctx.existing = "none" /\ ctx.hasSource
  /\ runner = "txnChangeSet" => (entry = "run" /\ ctx.backendTxn = "none")

NextRuns ==
  \/ Run
  \/ In
  \/ BeginTxn
  \/ CallbackReturn
  \/ CallbackRaiseStep
  \/ RunnerAfterCallback
  \/ RunnerAfterCommit
  \/ RunnerAfterRollback
  \/ UserDefer
  \/ UserDeferFail
  \/ UserDeferTxn
  \/ CsActionStep
  \/ InnerBeginTxn
  \/ InnerActionStep
  \/ InnerBackendSettle
  \/ InnerAfterCommit
  \/ InnerAfterRollback
  \/ TxnPhaseEnd
  \/ RunAgain

SpecRuns == InitRuns /\ [][NextRuns]_vars

\* txn() or txnChangeSet() is called with a bundle or a context, and the
\* runner is used for one run() or in() call, with or without options,
\* over the abstract backend or the reference stack backend
InitFactory ==
  /\ runner \in {"txn", "stack", "txnChangeSet"}
  /\ entry \in {"run", "in"}
  /\ pc = "new"
  /\ factory \in FactoryCalls
  /\ optsArg \in OptsArgs
  /\ mem \in {MemOf(st) : st \in IF runner = "stack" THEN InitialStacks ELSE {<<>>}}
  /\ InitState

NextFactory ==
  \/ Factory
  \/ Run
  \/ In
  \/ BeginTxn
  \/ StackPush
  \/ CallbackReturn
  \/ CallbackRaiseStep
  \/ JoinedReturn
  \/ JoinedRaiseStep
  \/ RunnerAfterCallback
  \/ RunnerAfterCommit
  \/ RunnerAfterRollback
  \/ BackendStep
  \/ StackCommitStep

SpecFactory == InitFactory /\ [][NextFactory]_vars

\* ------------------------------------------------------------------ helpers

RunnerCommits == CallsOf("commit", "runner")
RunnerRollbacks == CallsOf("rollback", "runner")

\* call i was turned away by the status check
Refused(i) == calls[i].st = "rejected" /\ calls[i].err = <<AlreadyCompletedError>>

AllSettled == \A i \in 1..Len(calls) : Settled(i)

\* the events of one list of deferred actions, in order
EventsOf(list) == SelectSeq(execLog, LAMBDA e : e.list = list)

\* the ids of the actions of a list that were started, in order
Started(list) ==
  LET ev == SelectSeq(execLog, LAMBDA e : e.list = list /\ e.ev = "start")
  IN [k \in 1..Len(ev) |-> ev[k].id]

IsPrefix(s, t) == Len(s) <= Len(t) /\ \A k \in 1..Len(s) : s[k] = t[k]

\* the value whose throw sent run() into its catch clause
OriginalError ==
  IF cbResult = "raise" THEN cbThrown
  ELSE IF \E c \in RunnerCommits : calls[c].st = "rejected"
       THEN calls[CHOOSE c \in RunnerCommits : calls[c].st = "rejected"].err
       ELSE <<>>

\* run() was called on a context with a source and no open transaction
FreshContext == getTransactable(runner, ctx) /\ ctx.existing = "none"

\* ------------------------------------------------------------------- claims

\* C1 (as stated): on a context with a source and no open transaction, if
\* the callback completes without raising, run() calls commit exactly once,
\* only after the callback has finished, never calls rollback, and resolves
\* once commit has succeeded.
C1_Original ==
  (FreshContext /\ cbResult = "ok") =>
     /\ Cardinality(RunnerCommits) <= 1
     /\ pc \in {"awaitCommit", "awaitRollback", "done"} => Cardinality(RunnerCommits) = 1
     /\ RunnerRollbacks = {}
     /\ outcome = "resolved" => \E c \in RunnerCommits : calls[c].st = "resolved"

\* C1 (amended): on a context with a source and no open transaction, if the
\* callback completes without raising, run() calls commit exactly once and
\* only after the callback has finished; it calls rollback only after that
\* commit has raised, never when the commit succeeded; and it resolves
\* exactly when the commit has succeeded.
C1_CommitAfterCallback ==
  /\ FreshContext => (RunnerCommits # {} => cbResult = "ok")
  /\ (FreshContext /\ cbResult = "ok") =>
       /\ Cardinality(RunnerCommits) <= 1
       /\ pc \in {"awaitCommit", "awaitRollback", "done"} => Cardinality(RunnerCommits) = 1
       /\ RunnerRollbacks # {} => \E c \in RunnerCommits : calls[c].st = "rejected"
       /\ outcome = "resolved" => \E c \in RunnerCommits : calls[c].st = "resolved"
       /\ pc = "done" =>
            (outcome = "resolved" <=> \E c \in RunnerCommits : calls[c].st = "resolved")

C1_Witness ==
  /\ FreshContext /\ cbResult = "ok" /\ pc = "done" /\ outcome = "resolved"
  /\ \E c \in RunnerCommits : calls[c].st = "resolved"
  /\ RunnerRollbacks = {}

\* C2: if the callback raises, run() never calls commit on the opened
\* transaction, calls rollback on it exactly once, and rejects.
C2_RollbackOnRaise ==
  cbResult = "raise" =>
     /\ RunnerCommits = {}
     /\ Cardinality(RunnerRollbacks) <= 1
     /\ pc \in {"awaitRollback", "done"} => Cardinality(RunnerRollbacks) = 1
     /\ outcome # "resolved"
     /\ pc = "done" => outcome = "rejected"

C2_Witness ==
  /\ cbResult = "raise" /\ pc = "done" /\ outcome = "rejected"
  /\ Cardinality(RunnerRollbacks) = 1

\* C3 (as stated): whenever the callback or the commit raises, the error
\* run() rejects with is a "Transaction failed" Error whose cause is the
\* value that was raised, whatever rollback does.
C3_Original ==
  (pc = "done" /\ OriginalError # <<>>) =>
     /\ error # <<>>
     /\ error[1].isError
     /\ IsPrefix(<<"Transaction failed">>, error[1].msg)
     /\ error[1].cause = OriginalError

\* C3 (amended): whenever the callback or the commit raises and the
\* rollback that follows completes without raising, run() rejects with a
\* "Transaction failed" Error whose cause is the raised value when that is
\* an Error object, and which has no cause otherwise; when the rollback
\* itself raises, run() rejects with what the rollback raised.
C3_FailureWrapsCause ==
  (pc = "done" /\ OriginalError # <<>>) =>
     /\ outcome = "rejected"
     /\ error # <<>>
     /\ \A r \in RunnerRollbacks :
          IF calls[r].st = "resolved"
          THEN /\ error[1].isError
               /\ IsPrefix(<<"Transaction failed">>, error[1].msg)
               /\ error[1].cause = IF OriginalError[1].isError THEN OriginalError ELSE <<>>
          ELSE error = calls[r].err

C3_Witness ==
  /\ pc = "done" /\ cbResult = "raise" /\ cbThrown[1].isError
  /\ \E r \in RunnerRollbacks : calls[r].st = "resolved"
  /\ error # <<>> /\ error[1].cause = cbThrown

\* C4: if the callback completes but commit raises, run() then calls
\* rollback exactly once on the same transaction, after the failed commit,
\* and rejects; it never resolves.
C4_RollbackAfterFailedCommit ==
  \A c \in RunnerCommits :
     calls[c].st = "rejected" =>
        /\ outcome # "resolved"
        /\ Cardinality(RunnerRollbacks) <= 1
        /\ \A r \in RunnerRollbacks : r > c
        /\ pc \in {"awaitRollback", "done"} => Cardinality(RunnerRollbacks) = 1
        /\ pc = "done" => outcome = "rejected"

C4_Witness ==
  /\ pc = "done" /\ cbResult = "ok" /\ outcome = "rejected"
  /\ \E c \in RunnerCommits : calls[c].st = "rejected"
  /\ Cardinality(RunnerRollbacks) = 1

\* C5: no deferred commit action executes before commit() is called, and
\* commit() executes the commit actions in registration order, each one
\* finishing before the next one starts; a commit() that succeeded has
\* executed all of them.
C5_CommitOrder ==
  LET ev == EventsOf("commit") IN
  /\ \A k \in 1..Len(ev) :
       /\ ev[k].call \in 1..Len(calls)
       /\ calls[ev[k].call].op = "commit"
       /\ ~Refused(ev[k].call)
       /\ done
  /\ IsPrefix(Started("commit"), commitFns)
  /\ \A k \in 1..Len(ev) :
       IF k % 2 = 1
       THEN ev[k].ev = "start"
       ELSE ev[k].ev \in {"ok", "raise"} /\ ev[k].id = ev[k - 1].id
  /\ \A c \in 1..Len(calls) :
       (calls[c].op = "commit" /\ calls[c].st = "resolved") =>
          /\ Started("commit") = commitFns
          /\ \A k \in 1..Len(ev) : ev[k].ev # "raise"
          /\ Len(ev) = 2 * Len(commitFns)

C5_Witness ==
  /\ Len(commitFns) = MaxFns
  /\ Started("commit") = commitFns
  /\ \E c \in 1..Len(calls) : calls[c].op = "commit" /\ calls[c].st = "resolved"

\* C6: if a commit action raises during commit(), no later-registered
\* commit action is ever executed, and commit() fails with that action's
\* error.
C6_AbortOnFirstError ==
  LET ev == EventsOf("commit") IN
  \A k \in 1..Len(ev) :
     ev[k].ev = "raise" =>
        /\ k = Len(ev)
        /\ calls[ev[k].call].st = "rejected"
        /\ calls[ev[k].call].err = <<ActionError(ev[k].id)>>

C6_Witness ==
  LET ev == EventsOf("commit") IN
  /\ Len(commitFns) = MaxFns
  /\ Len(ev) = 2
  /\ ev[2].ev = "raise" /\ ev[2].id = commitFns[1]
  /\ AllSettled /\ pc = "done"

\* C7: when a change set is run through its runner and a commit action
\* raises in the runner's commit, every registered deferFail action is
\* executed, in registration order, after the failing commit action.
C7_AllFailActionsRun ==
  (/\ runner = "changeSet" /\ pc = "done" /\ AllSettled
   /\ \E k \in 1..Len(execLog) :
        /\ execLog[k].list = "commit" /\ execLog[k].ev = "raise"
        /\ execLog[k].call \in RunnerCommits)
  =>
  /\ Started("fail") = rollbackFns
  /\ \A k, j \in 1..Len(execLog) :
       (execLog[k].list = "commit" /\ execLog[j].list = "fail") => k < j

\* the same with no failure action raising: holds, so the only way C7
\* fails is a deferFail action that raises
C7_UnlessFailActionRaises ==
  (/\ runner = "changeSet" /\ pc = "done" /\ AllSettled
   /\ \E k \in 1..Len(execLog) :
        /\ execLog[k].list = "commit" /\ execLog[k].ev = "raise"
        /\ execLog[k].call \in RunnerCommits
   /\ \A k \in 1..Len(execLog) : ~(execLog[k].list = "fail" /\ execLog[k].ev = "raise"))
  =>
  /\ Started("fail") = rollbackFns
  /\ \A k, j \in 1..Len(execLog) :
       (execLog[k].list = "commit" /\ execLog[j].list = "fail") => k < j

\* C8: rollback() executes every registered failure action in registration
\* order, even when an earlier failure action raises.
C8_RollbackBestEffort ==
  \A c \in 1..Len(calls) :
     (runner = "changeSet" /\ calls[c].op = "rollback" /\ Settled(c) /\ ~Refused(c))
     => Started("fail") = rollbackFns

\* C9: on one change set a commit() is admitted only as the first terminal
\* call, and a rollback() is admitted only as the first terminal call or
\* after the admitted commit() has failed, and then only once: every other
\* commit() or rollback() fails with AlreadyCompletedError.
C9_SecondTerminalCall ==
  [][ (runner = "changeSet" /\ Len(calls') = Len(calls) + 1) =>
        LET n == Len(calls')
            new == calls'[n]
            refused == new.st = "rejected" /\ new.err = <<AlreadyCompletedError>>
            prior == {i \in 1..Len(calls) : ~Refused(i)}
        IN  ~refused <=>
              \/ prior = {}
              \/ /\ new.op = "rollback"
                 /\ \E i \in prior : calls[i].op = "commit" /\ calls[i].st = "rejected"
                 /\ \A i \in prior : calls[i].op # "rollback"
    ]_vars

C9_Witness ==
  /\ runner = "changeSet"
  /\ \E i, j, k \in 1..Len(calls) :
       /\ i < j /\ j < k
       /\ calls[i].op = "commit" /\ calls[i].st = "rejected" /\ ~Refused(i)
       /\ calls[j].op = "rollback" /\ calls[j].st = "resolved"
       /\ calls[k].op = "rollback" /\ Refused(k)

\* C10: after a commit() of a change set that succeeded, a rollback() fails
\* with AlreadyCompletedError and no failure action is executed.
C10_NoRollbackAfterCommit ==
  \A c \in 1..Len(calls) :
     (runner = "changeSet" /\ calls[c].op = "commit" /\ calls[c].st = "resolved") =>
        /\ \A r \in 1..Len(calls) : calls[r].op = "rollback" => Refused(r)
        /\ EventsOf("fail") = <<>>

C10_Witness ==
  /\ runner = "changeSet"
  /\ rollbackFns # <<>> /\ commitFns # <<>>
  /\ \E c, r \in 1..Len(calls) :
       /\ c < r
       /\ calls[c].op = "commit" /\ calls[c].st = "resolved"
       /\ calls[r].op = "rollback" /\ Refused(r)
  /\ EventsOf("fail") = <<>>

\* C11: defer and deferFail on a change set that is already committed or
\* rolled back fail with AlreadyCompletedError and leave the commit-action
\* and failure-action sequences unchanged.
C11_DeferAfterDone ==
  [][ /\ done => (commitFns' = commitFns /\ rollbackFns' = rollbackFns /\ nextId' = nextId)
      /\ rejected' # rejected =>
           (done /\ rejected' = rejected + 1
                 /\ commitFns' = commitFns /\ rollbackFns' = rollbackFns)
    ]_vars

C11_Witness ==
  /\ done /\ rejected > 0
  /\ commitFns # <<>> /\ rollbackFns # <<>>

\* C12: deferTxn on a transaction change set that is already committed or
\* rolled back fails with AlreadyCompletedError and does not add the
\* callback: the sequence of transactional actions is left unchanged.
C12_DeferTxnAfterDone ==
  [][ (runner = "txnChangeSet" /\ done) => commitTxn' = commitTxn ]_vars

\* C13: run() on a context from which no transaction source can be
\* resolved fails with the Error 'No transactable source present on
\* context'; beginTxn is not called and the callback is not invoked.
C13_NoSource ==
  (pc # "idle" /\ ~Joined /\ runner = "txn" /\ ~ctx.hasSource) =>
     /\ pc = "done" /\ outcome = "rejected"
     /\ error = <<NoSourceError>>
     /\ beginCalls = <<>> /\ cbResult = "none" /\ calls = <<>>

C13_Witness ==
  /\ entry = "run" /\ runner = "txn" /\ ~ctx.hasSource /\ fnGiven
  /\ pc = "done" /\ error = <<NoSourceError>>

\* C14: run(), called with a callback on a context that has a source and
\* already carries an open transaction without beginTxn, fails with the
\* Error 'There is already an open transaction, and it does not support
\* nested transactions', for a backend transaction and for a change set
\* alike; no transaction is begun.
C14_NestedRejected ==
  (/\ pc # "idle" /\ entry = "run" /\ fnGiven
   /\ (runner = "changeSet" \/ ctx.hasSource)
   /\ ctx.existing = "plain")
  =>
     /\ pc = "done" /\ outcome = "rejected"
     /\ error = <<NestedTxnError>>
     /\ beginCalls = <<>> /\ cbResult = "none" /\ calls = <<>>

C14_Witness ==
  /\ entry = "run" /\ runner = "changeSet" /\ ctx.existing = "plain" /\ fnGiven
  /\ pc = "done" /\ error = <<NestedTxnError>>

\* C15: run() on a context carrying a nestable transaction begins the child
\* transaction from that transaction, not from the context's source; it
\* calls commit and rollback on the child only, and the child's commit has
\* completed before the parent's commit begins.
C15_NestedChild ==
  (/\ pc # "idle" /\ entry = "run" /\ runner = "txn" /\ fnGiven
   /\ ctx.hasSource /\ ctx.existing = "nestable")
  =>
     /\ beginCalls = <<"existing">>
     /\ parentCalls # <<>> => (pc = "done" /\ AllSettled)
     /\ pc = "done" => AllSettled

C15_Witness ==
  /\ entry = "run" /\ runner = "txn" /\ ctx.existing = "nestable"
  /\ pc = "done" /\ outcome = "resolved"
  /\ \E c \in RunnerCommits : calls[c].st = "resolved"
  /\ parentCalls = <<"commit">>

\* C16: in() on a context that already carries an open transaction invokes
\* the callback with the same context and that transaction, never calls
\* beginTxn, and calls neither commit nor rollback; the transaction is
\* committed only by the enclosing run, after in() has returned.
C16_InJoins ==
  (pc # "idle" /\ Joined /\ fnGiven) =>
     /\ cbArgs = <<[ctx |-> "same", txn |-> "existing"]>>
     /\ beginCalls = <<>>
     /\ calls = <<>> /\ execLog = <<>>
     /\ parentCalls # <<>> => pc = "done"

C16_Witness ==
  /\ Joined /\ fnGiven /\ pc = "done" /\ outcome = "resolved"
  /\ cbArgs = <<[ctx |-> "same", txn |-> "existing"]>>
  /\ parentCalls = <<"commit">>

\* C17: in() on a context without an open transaction does what run() does
\* with the same arguments: its step from the call is the step of run(),
\* with the same checks in the same order, the same errors and the same
\* beginTxn call; from there on it is the same run().
C17_InAsRun ==
  [][ (entry = "in" /\ ctx.existing = "none" /\ pc = "idle") =>
        (RunBody /\ UNCHANGED extVars) ]_vars

C17_Witness ==
  /\ entry = "in" /\ ctx.existing = "none"
  /\ pc = "done" /\ outcome = "resolved"
  /\ beginCalls = <<"source">>
  /\ \E c \in RunnerCommits : calls[c].st = "resolved"

\* the inner run failed in its transactional phase: a transactional action
\* raised, or commit() of the backend transaction raised
TxnPhaseFailed ==
  /\ inner.outcome = "rejected"
  /\ \/ inner.cbResult = "raise"
     \/ \E n \in 1..Len(inner.calls) :
          inner.calls[n].op = "commit" /\ inner.calls[n].st = "rejected"

\* C18: a transaction change set on which deferTxn was never called makes
\* no inner run, so never calls beginTxn on the backend, whether it is
\* committed or rolled back; its commit actions are still all executed, in
\* order, by a commit() that resolves.
C18_NoTxnPhaseWithoutDeferTxn ==
  (runner = "txnChangeSet" /\ commitTxn = <<>>)
  =>
  /\ inner = InnerIdle
  /\ \A c \in 1..Len(calls) :
       (calls[c].op = "commit" /\ calls[c].st = "resolved")
       => Started("commit") = commitFns

C18_Witness ==
  /\ runner = "txnChangeSet" /\ commitTxn = <<>>
  /\ pc = "done" /\ outcome = "resolved"
  /\ Len(commitFns) = 2 /\ Started("commit") = commitFns
  /\ \E c \in RunnerCommits : calls[c].st = "resolved"

\* C19: when a transaction change set is run through its runner and the
\* transactional phase of its commit fails, none of its commit actions is
\* ever executed, every failure action is executed exactly once, and
\* rollback() is called on the backend transaction.
C19_TxnPhaseFailure ==
  (/\ runner = "txnChangeSet" /\ pc = "done" /\ AllSettled
   /\ inner.call \in RunnerCommits
   /\ TxnPhaseFailed)
  =>
  /\ EventsOf("commit") = <<>>
  /\ Started("fail") = rollbackFns
  /\ \E n \in 1..Len(inner.calls) : inner.calls[n].op = "rollback"

\* the same with no failure action raising: holds, so the only way C19
\* fails is a deferFail action that raises
C19_UnlessFailActionRaises ==
  (/\ runner = "txnChangeSet" /\ pc = "done" /\ AllSettled
   /\ inner.call \in RunnerCommits
   /\ TxnPhaseFailed
   /\ \A k \in 1..Len(execLog) : ~(execLog[k].list = "fail" /\ execLog[k].ev = "raise"))
  =>
  /\ EventsOf("commit") = <<>>
  /\ Started("fail") = rollbackFns
  /\ \E n \in 1..Len(inner.calls) : inner.calls[n].op = "rollback"

\* C20: in a commit() of a transaction change set with transactional
\* actions, a commit action starts only after the inner run has resolved:
\* every transactional action registered before the commit() has been
\* executed and has returned, commit() of the backend transaction has
\* resolved, and all of that lies before the first commit action in the
\* execution order.
C20_TxnPhaseBeforeCommitActions ==
  (runner = "txnChangeSet" /\ inner.pc # "idle" /\ EventsOf("commit") # <<>>)
  =>
  /\ inner.outcome = "resolved"
  /\ Len(inner.calls) = 1
  /\ inner.calls[1].op = "commit" /\ inner.calls[1].st = "resolved"
  /\ IsPrefix(Started("txn"), commitTxn)
  /\ \A k \in 1..Len(commitTxn) :
       commitTxn[k] \notin lateTxn => k <= Len(Started("txn"))
  /\ \A k \in 1..Len(execLog) : ~(execLog[k].list = "txn" /\ execLog[k].ev = "raise")
  /\ Len(EventsOf("txn")) = 2 * Len(Started("txn"))
  /\ \A k, j \in 1..Len(execLog) :
       (execLog[k].list = "txn" /\ execLog[j].list = "commit") => k < j

C20_Witness ==
  /\ runner = "txnChangeSet"
  /\ Len(commitTxn) = 2 /\ lateTxn = {}
  /\ Started("txn") = commitTxn
  /\ Len(commitFns) = 2 /\ Started("commit") = commitFns
  /\ pc = "done" /\ outcome = "resolved"

\* C21: when the transactional phase of a transaction change set has
\* committed and a commit action then raises in the runner's commit,
\* rollback() is never called on the backend transaction, no later commit
\* action is executed, every failure action is executed exactly once, and
\* the run rejects.
C21_FailureAfterTxnPhase ==
  (/\ runner = "txnChangeSet" /\ pc = "done" /\ AllSettled
   /\ inner.call \in RunnerCommits /\ inner.outcome = "resolved"
   /\ \E k \in 1..Len(execLog) :
        execLog[k].list = "commit" /\ execLog[k].ev = "raise")
  =>
  /\ \A n \in 1..Len(inner.calls) : inner.calls[n].op # "rollback"
  /\ \A k, j \in 1..Len(execLog) :
       (execLog[k].list = "commit" /\ execLog[k].ev = "raise"
        /\ execLog[j].list = "commit") => j <= k
  /\ Started("fail") = rollbackFns
  /\ outcome = "rejected"

\* the same with no failure action raising: holds, so the only way C21
\* fails is a deferFail action that raises
C21_UnlessFailActionRaises ==
  (/\ runner = "txnChangeSet" /\ pc = "done" /\ AllSettled
   /\ inner.call \in RunnerCommits /\ inner.outcome = "resolved"
   /\ \E k \in 1..Len(execLog) :
        execLog[k].list = "commit" /\ execLog[k].ev = "raise"
   /\ \A k \in 1..Len(execLog) : ~(execLog[k].list = "fail" /\ execLog[k].ev = "raise"))
  =>
  /\ \A n \in 1..Len(inner.calls) : inner.calls[n].op # "rollback"
  /\ \A k, j \in 1..Len(execLog) :
       (execLog[k].list = "commit" /\ execLog[k].ev = "raise"
        /\ execLog[j].list = "commit") => j <= k
  /\ Started("fail") = rollbackFns
  /\ outcome = "rejected"

\* C22: the Error run() builds once the callback or the commit has raised
\* v and the rollback has completed: for an Error v, message 'Transaction
\* failed: ' followed by String(v) and cause v; for another value that is
\* not null or undefined, message 'Transaction failed: ' followed by the
\* value as a string and no cause; for null or undefined, message
\* 'Transaction failed' and no cause.
C22_FailureMessage ==
  (/\ ~Joined /\ pc = "done" /\ OriginalError # <<>>
   /\ \E r \in RunnerRollbacks : calls[r].st = "resolved")
  =>
  LET v == OriginalError[1] IN
  error = <<[isError |-> TRUE, isNull |-> FALSE,
             msg |-> IF v.isError THEN <<"Transaction failed", ": ", "Error: ">> \o v.msg
                     ELSE IF v.isNull THEN <<"Transaction failed">>
                     ELSE <<"Transaction failed", ": ">> \o v.msg,
             cause |-> IF v.isError THEN <<v>> ELSE <<>>]>>

C22_Witness ==
  /\ pc = "done" /\ cbThrown = <<NullVal>>
  /\ \E r \in RunnerRollbacks : calls[r].st = "resolved"
  /\ error # <<>> /\ error[1].msg = <<"Transaction failed">> /\ error[1].cause = <<>>

\* C23: run(), and in() on a context without an open transaction, called
\* with no callback on a context with a transaction source, reject with
\* the Error 'Missing callback function'; beginTxn is not called.
C23_MissingCallback ==
  (/\ pc # "idle" /\ ~fnGiven /\ getTransactable(runner, ctx)
   /\ (entry = "run" \/ ctx.existing = "none"))
  =>
  /\ pc = "done" /\ outcome = "rejected"
  /\ error # <<>> /\ error[1].isError
  /\ error[1].msg = <<"Missing callback function">>
  /\ beginCalls = <<>> /\ cbArgs = <<>>

C23_Witness ==
  /\ entry = "in" /\ ctx.existing = "none" /\ ~fnGiven /\ runner = "txn" /\ ctx.hasSource
  /\ pc = "done" /\ error = <<MissingCallbackError>>

\* C24: with the reference stack backend, the values the callback pushes
\* through the transaction are not in the underlying stack while the
\* callback runs; after a run whose callback raised, the run has rejected
\* and the stack has its content of before the run; after a run that
\* resolved, the stack has that content followed by the pushed values.
C24_StackIsolation ==
  runner = "stack" =>
    /\ pc \in {"callback", "afterCallback"} =>
         (mem.stack = mem.initial /\ mem.snap = mem.initial \o mem.ops)
    /\ (pc = "done" /\ cbResult = "raise") =>
         (outcome = "rejected" /\ mem.stack = mem.initial)
    /\ (pc = "done" /\ cbResult = "ok") =>
         (outcome = "resolved" /\ mem.stack = mem.initial \o mem.ops)

C24_Witness ==
  /\ runner = "stack" /\ pc = "done" /\ outcome = "resolved"
  /\ mem.initial = <<"a", "b">> /\ Len(mem.ops) = 2
  /\ mem.stack = mem.initial \o mem.ops

\* C25: when a change set is run through its runner and the callback
\* raises, no commit action is ever executed, every failure action is
\* executed once, in registration order, and the run rejects with the
\* 'Transaction failed' Error made from what the callback raised.
C25_CallbackRaiseRunsFailActions ==
  (runner = "changeSet" /\ ~Joined /\ pc = "done" /\ AllSettled /\ cbResult = "raise")
  =>
  /\ EventsOf("commit") = <<>>
  /\ Started("fail") = rollbackFns
  /\ outcome = "rejected"
  /\ error = <<TransactionFailed(cbThrown[1])>>

\* the same with no failure action raising: holds, so the only way C25
\* fails is a deferFail action that raises
C25_UnlessFailActionRaises ==
  (/\ runner = "changeSet" /\ ~Joined /\ pc = "done" /\ AllSettled /\ cbResult = "raise"
   /\ \A k \in 1..Len(execLog) : ~(execLog[k].list = "fail" /\ execLog[k].ev = "raise"))
  =>
  /\ EventsOf("commit") = <<>>
  /\ Started("fail") = rollbackFns
  /\ outcome = "rejected"
  /\ error = <<TransactionFailed(cbThrown[1])>>

\* C26: the run of a transaction change set runner resolves only if the
\* callback returned and every registered transactional action, commit()
\* of the backend transaction and every registered commit action was
\* executed once and returned; no failure action has then been executed.
C26_ResolvedMeansAllDone ==
  (runner = "txnChangeSet" /\ outcome = "resolved")
  =>
  /\ cbResult = "ok"
  /\ Started("txn") = commitTxn
  /\ Started("commit") = commitFns
  /\ \A k \in 1..Len(execLog) : execLog[k].ev # "raise"
  /\ Len(execLog) = 2 * (Len(commitTxn) + Len(commitFns))
  /\ commitTxn # <<>> =>
       (Len(inner.calls) = 1 /\ inner.calls[1].op = "commit" /\ inner.calls[1].st = "resolved")
  /\ EventsOf("fail") = <<>>

\* the same with no transactional action registered on the completed set:
\* holds, so the only way C26 fails is a deferTxn that is not refused
C26_UnlessLateDeferTxn ==
  (runner = "txnChangeSet" /\ outcome = "resolved" /\ lateTxn = {})
  =>
  /\ cbResult = "ok"
  /\ Started("txn") = commitTxn
  /\ Started("commit") = commitFns
  /\ \A k \in 1..Len(execLog) : execLog[k].ev # "raise"
  /\ Len(execLog) = 2 * (Len(commitTxn) + Len(commitFns))
  /\ commitTxn # <<>> =>
       (Len(inner.calls) = 1 /\ inner.calls[1].op = "commit" /\ inner.calls[1].st = "resolved")
  /\ EventsOf("fail") = <<>>

C28_NoAccessors ==
  (pc # "new" /\ factory.arg = "ctx" /\ factory.attached = "none")
  =>
  /\ factory.st = "threw"
  /\ factory.error # <<>> /\ factory.error[1].isError
  /\ factory.error[1].msg = <<"No transaction accessors defined on context">>
  /\ factory.accessor = "none"
  /\ pc = "noRunner"
  /\ outcome = "pending" /\ beginCalls = <<>> /\ cbArgs = <<>>

C28_Witness ==
  /\ runner = "txnChangeSet" /\ factory.arg = "ctx" /\ factory.attached = "none"
  /\ pc = "noRunner" /\ factory.st = "threw"

\* C29: beginTxn is called with the options of run(ctx, opts, fn) or
\* in(ctx, opts, fn), and with undefined for run(ctx, fn) or in(ctx, fn),
\* on the source of the context and on a nestable transaction alike; a
\* push in a transaction begun read-only makes the run reject, nothing is
\* committed and the stack keeps its content.
C29_OptionsPassed ==
  /\ pc # "begin" => Len(beginOpts) = Len(beginCalls)
  /\ beginOpts # <<>> =>
       beginOpts = <<IF optsArg = "absent" THEN "undefined" ELSE optsArg>>
  /\ (runner = "stack" /\ mem.open) => (mem.readOnly <=> optsArg = "readOnly")
  /\ (runner = "stack" /\ optsArg = "readOnly" /\ pc = "done" /\ cbThrown = <<ReadOnlyError>>)
       => (outcome = "rejected" /\ RunnerCommits = {} /\ mem.stack = mem.initial)

C29_Witness ==
  /\ runner = "stack" /\ entry = "in" /\ optsArg = "readOnly"
  /\ beginOpts = <<"readOnly">>
  /\ pc = "done" /\ cbThrown = <<ReadOnlyError>> /\ outcome = "rejected"
  /\ mem.initial = <<"a", "b">> /\ mem.stack = mem.initial

C38_JoinedRaiseUnwrapped ==
  (Joined /\ cbResult = "raise") =>
     /\ pc = "done" /\ outcome = "rejected"
     /\ error = cbThrown
     /\ \A v \in CallbackThrows : error # <<TransactionFailed(v)>>
     /\ beginCalls = <<>> /\ calls = <<>> /\ execLog = <<>>
     /\ Len(parentCalls) <= 1

\* the enclosing callback caught the error and the enclosing run() committed
C38_Witness ==
  /\ Joined /\ cbResult = "raise" /\ pc = "done"
  /\ error = <<StringVal(<<"Not an error object">>)>>
  /\ parentCalls = <<"commit">>

\* C40: when beginTxn() rejects, run() rejects with the same value, not
\* with the "Transaction failed" Error; the callback is never invoked, and
\* neither commit nor rollback is called.
C40_BeginRaises ==
  (pc = "done" /\ ~Joined /\ beginCalls # <<>> /\ cbArgs = <<>>) =>
     /\ outcome = "rejected"
     /\ \E e \in BeginThrows : error = <<e>>
     /\ \A e \in BeginThrows : error # <<TransactionFailed(e)>>
     /\ cbResult = "none"
     /\ calls = <<>> /\ execLog = <<>>

C40_Witness ==
  /\ runner = "txn" /\ entry = "run" /\ pc = "done"
  /\ beginCalls = <<"source">> /\ cbArgs = <<>>
  /\ \E e \in BeginThrows : error = <<e>>

\* C33: when run() rejects with 'No transactable source present on
\* context', 'Missing callback function' or the nested-transaction Error,
\* beginTxn has not been called, the callback has not been invoked, and no
\* commit or rollback has been called; the rejecting step itself makes no
\* call on the transaction found on the context.
C33_RejectedBeforeBegin ==
  /\ []((/\ pc = "done" /\ ~Joined
         /\ error \in {<<NoSourceError>>, <<MissingCallbackError>>, <<NestedTxnError>>})
        => /\ outcome = "rejected"
           /\ beginCalls = <<>> /\ beginOpts = <<>>
           /\ cbArgs = <<>> /\ cbResult = "none"
           /\ calls = <<>> /\ execLog = <<>>)
  /\ [][ (/\ pc = "idle" /\ pc' = "done"
          /\ error' \in {<<NoSourceError>>, <<MissingCallbackError>>, <<NestedTxnError>>})
         => UNCHANGED <<beginCalls, beginOpts, cbArgs, calls, parentCalls>> ]_vars

C33_Witness ==
  /\ entry = "run" /\ runner = "txn" /\ ctx.hasSource /\ fnGiven
  /\ ctx.existing = "plain"
  /\ pc = "done" /\ error = <<NestedTxnError>>
  /\ parentCalls = <<"rollback">>
\* the commit() calls the inner run made on the backend transaction
InnerCommits == {n \in 1..Len(inner.calls) : inner.calls[n].op = "commit"}

\* C34: when a transaction change set with at least one transactional
\* action is committed and the inner run gets to open the backend
\* transaction, beginTxn is called exactly once; the transactional actions
\* are invoked in registration order, each one finishing before the next
\* one starts; and commit() of the backend transaction is called at most
\* once, only when every transactional action registered before the
\* commit() has been invoked and has returned, and exactly once when they
\* all have.
C34_TxnPhaseOrder ==
  LET ev == EventsOf("txn") IN
  (/\ runner = "txnChangeSet" /\ inner.pc # "idle"
   /\ ctx.hasSource /\ ctx.backendTxn # "plain")
  =>
  /\ Len(inner.beginCalls) = 1
  /\ IsPrefix(Started("txn"), commitTxn)
  /\ \A k \in 1..Len(ev) :
       /\ ev[k].call = inner.call
       /\ IF k % 2 = 1
          THEN ev[k].ev = "start"
          ELSE ev[k].ev \in {"ok", "raise"} /\ ev[k].id = ev[k - 1].id
  /\ Cardinality(InnerCommits) <= 1
  /\ InnerCommits # {} =>
       /\ inner.pc # "callback"
       /\ Len(ev) = 2 * Len(Started("txn"))
       /\ \A k \in 1..Len(ev) : ev[k].ev # "raise"
       /\ \A k \in 1..Len(commitTxn) :
            commitTxn[k] \notin lateTxn => k <= Len(Started("txn"))
  /\ (/\ inner.pc \notin {"begin", "callback"}
      /\ ev # <<>>
      /\ \A k \in 1..Len(ev) : ev[k].ev # "raise")
     => Cardinality(InnerCommits) = 1
  /\ inner.outcome = "resolved" =>
       /\ Cardinality(InnerCommits) = 1
       /\ ev # <<>>

C34_Witness ==
  /\ runner = "txnChangeSet"
  /\ Len(commitTxn) = MaxFns /\ lateTxn = {}
  /\ Started("txn") = commitTxn
  /\ inner.beginCalls = <<"source">>
  /\ inner.outcome = "resolved"
  /\ Len(inner.calls) = 1 /\ inner.calls[1].st = "resolved"
  /\ pc = "done" /\ outcome = "resolved"

\* C39: when the context a transaction change set was created from already
\* carries a backend transaction without beginTxn, the runner's commit with
\* transactional actions fails with the nested-transaction Error of the
\* inner run(); beginTxn is not called, no transactional action and no
\* commit action is executed, and every failure action is executed once
\* when the outer run rolls the change set back.
C39_NestedBackendTxn ==
  (/\ runner = "txnChangeSet" /\ pc = "done" /\ AllSettled
   /\ ctx.hasSource /\ ctx.backendTxn = "plain"
   /\ inner.call \in RunnerCommits)
  =>
  /\ calls[inner.call].st = "rejected"
  /\ calls[inner.call].err = <<NestedTxnError>>
  /\ inner.beginCalls = <<>> /\ inner.calls = <<>>
  /\ EventsOf("txn") = <<>> /\ EventsOf("commit") = <<>>
  /\ Cardinality(RunnerRollbacks) = 1
  /\ Started("fail") = rollbackFns
  /\ outcome = "rejected"

\* the same with no failure action raising: holds, so the only way C39
\* fails is a deferFail action that raises
C39_UnlessFailActionRaises ==
  (/\ runner = "txnChangeSet" /\ pc = "done" /\ AllSettled
   /\ ctx.hasSource /\ ctx.backendTxn = "plain"
   /\ inner.call \in RunnerCommits
   /\ \A k \in 1..Len(execLog) : ~(execLog[k].list = "fail" /\ execLog[k].ev = "raise"))
  =>
  /\ calls[inner.call].st = "rejected"
  /\ calls[inner.call].err = <<NestedTxnError>>
  /\ inner.beginCalls = <<>> /\ inner.calls = <<>>
  /\ EventsOf("txn") = <<>> /\ EventsOf("commit") = <<>>
  /\ Cardinality(RunnerRollbacks) = 1
  /\ Started("fail") = rollbackFns
  /\ outcome = "rejected"

\* the case of C39 with every failure action executed
C39_CaseReached ==
  /\ runner = "txnChangeSet" /\ pc = "done" /\ AllSettled
  /\ ctx.hasSource /\ ctx.backendTxn = "plain"
  /\ inner.call \in RunnerCommits
  /\ calls[inner.call].err = <<NestedTxnError>>
  /\ Len(rollbackFns) = MaxFns /\ Started("fail") = rollbackFns
\* C31: on one change set no failure action starts while a commit() is
\* running: a rollback() called during the commit() fails with
\* AlreadyCompletedError and executes no failure action, and a rollback()
\* is admitted after an admitted commit() only when that commit() has
\* failed.
C31_NoRollbackDuringCommit ==
  /\ CommitRunning =>
       /\ EventsOf("fail") = <<>>
       /\ \A r \in 1..Len(calls) : calls[r].op = "rollback" => Refused(r)
  /\ \A r \in 1..Len(calls) :
       (calls[r].op = "rollback" /\ ~Refused(r)) =>
          \A c \in 1..Len(calls) :
             (calls[c].op = "commit" /\ ~Refused(c)) =>
                (c < r /\ calls[c].st = "rejected")
  /\ \A k \in 1..Len(execLog) :
       execLog[k].list = "fail" =>
          (calls[execLog[k].call].op = "rollback" /\ ~Refused(execLog[k].call))

C31_Witness ==
  /\ CommitRunning
  /\ rollbackFns # <<>>
  /\ \E r \in 1..Len(calls) : calls[r].op = "rollback" /\ Refused(r)
  /\ EventsOf("fail") = <<>>

\* C32: commit() marks the change set done before its first commit action
\* runs: while a commit() is running the set is done, no defer or deferFail
\* adds an action (the call fails with AlreadyCompletedError), and a
\* second commit() fails with AlreadyCompletedError.
C32_DoneBeforeFirstAction ==
  [][ CommitRunning =>
        /\ done
        /\ commitFns' = commitFns /\ rollbackFns' = rollbackFns
        /\ rejected' \in {rejected, rejected + 1}
        /\ Len(calls') = Len(calls) + 1 =>
              (/\ calls'[Len(calls')].st = "rejected"
               /\ calls'[Len(calls')].err = <<AlreadyCompletedError>>)
    ]_vars

C32_Witness ==
  /\ CommitRunning
  /\ rejected > 0
  /\ \E c \in 1..Len(calls) : calls[c].op = "commit" /\ Refused(c)
  /\ \E k \in 1..Len(execLog) : execLog[k].list = "commit" /\ execLog[k].ev = "start"
\* an admitted commit() has failed
CommitFailed ==
  \E c \in 1..Len(calls) :
     calls[c].op = "commit" /\ calls[c].st = "rejected" /\ ~Refused(c)

\* C37: after a commit() of a change set has failed, every defer, deferFail
\* and commit() fails with AlreadyCompletedError and changes nothing, and
\* however many of them come first, the first rollback() called is
\* admitted and starts the failure actions, while every rollback() after
\* an admitted one fails with AlreadyCompletedError.
C37_RollbackPermissionKept ==
  [][ CommitFailed =>
        /\ commitFns' = commitFns /\ rollbackFns' = rollbackFns
        /\ rejected' \in {rejected, rejected + 1}
        /\ Len(calls') = Len(calls) + 1 =>
              LET n == Len(calls')
                  new == calls'[n]
              IN  IF /\ new.op = "rollback"
                     /\ \A r \in 1..Len(calls) : calls[r].op = "rollback" => Refused(r)
                  THEN /\ new.st \in {"running", "resolved"}
                       /\ rollbackFns # <<>> =>
                            execLog' = Append(execLog,
                                         Event("fail", rollbackFns[1], "start", n))
                  ELSE /\ new.st = "rejected"
                       /\ new.err = <<AlreadyCompletedError>>
                       /\ execLog' = execLog
    ]_vars

\* a failed commit(), then a refused commit() and a rejected defer, then
\* the admitted rollback(), then a refused one
C37_Witness ==
  /\ rejected > 0 /\ rollbackFns # <<>>
  /\ \E c, d, r, q \in 1..Len(calls) :
       /\ c < d /\ d < r /\ r < q
       /\ calls[c].op = "commit" /\ calls[c].st = "rejected" /\ ~Refused(c)
       /\ calls[d].op = "commit" /\ Refused(d)
       /\ calls[r].op = "rollback" /\ calls[r].st = "resolved"
       /\ calls[q].op = "rollback" /\ Refused(q)
  /\ Started("fail") = rollbackFns
\* C36: when beginTxn, the callback, every deferred action, commit and
\* rollback terminate, a run() or in() that was called eventually resolves
\* or rejects, and by then the transaction it opened, if it opened one,
\* has been committed successfully or has had rollback called on it.
C36_Terminates ==
  (pc # "idle") ~>
     (/\ pc = "done"
      /\ outcome \in {"resolved", "rejected"}
      /\ cbArgs = <<[ctx |-> "child", txn |-> "opened"]>> =>
           \/ \E c \in RunnerCommits : calls[c].st = "resolved"
           \/ RunnerRollbacks # {})

\* the commit failed, rollback was called and failed too: run() has rejected
\* and the opened transaction has had its rollback call
C36_Witness ==
  /\ pc = "done" /\ outcome = "rejected"
  /\ cbArgs = <<[ctx |-> "child", txn |-> "opened"]>>
  /\ \E c \in RunnerCommits : calls[c].st = "rejected"
  /\ \E r \in RunnerRollbacks : calls[r].st = "rejected"
\* the ids of the actions registered on the change set
Registered ==
  {commitFns[k] : k \in 1..Len(commitFns)}
    \cup {rollbackFns[k] : k \in 1..Len(rollbackFns)}
    \cup {commitTxn[k] : k \in 1..Len(commitTxn)}

\* C35: every run() or in() of a change-set runner that opens a
\* transaction is handed a new change set, with no action registered and
\* not completed, whatever the change set of the call before holds; the
\* change set of a call holds, and its commit and rollback execute, only
\* actions registered during that call.
C35_FreshChangeSet ==
  /\ [][ (pc = "begin" /\ pc' = "callback") =>
           /\ commitFns' = <<>> /\ rollbackFns' = <<>> /\ commitTxn' = <<>>
           /\ ~done' /\ ~ignoreStatus'
           /\ inner'.pc = "idle" ]_vars
  /\ [](TxnOpened => \A id \in Registered : id >= thisRun.firstId)
  /\ [](\A k \in 1..Len(execLog) : execLog[k].id >= thisRun.firstId)

\* the second call commits its own two actions, after a first call that
\* registered actions and completed its change set
C35_Witness ==
  /\ thisRun.no = 2 /\ thisRun.firstId > 2
  /\ pc = "done" /\ outcome = "resolved"
  /\ Len(commitFns) = MaxFns
  /\ Started("commit") = commitFns
  /\ \A k \in 1..Len(commitFns) : commitFns[k] >= thisRun.firstId
====
